---- MODULE Spec2Model ----
(***************************************************************************)
(* Ingestion-normalization pipeline of sims-uploader: the job store        *)
(* (app/job_store.py), the queue and worker entry points                   *)
(* (app/job_runner.py), the staging loader (app/ingest_excel.py), the      *)
(* deduplication gate (app/prep_excel.py) and the orchestration            *)
(* (app/pipeline.py), as a state machine over the committed database       *)
(* tables and each worker's position in run_pipeline / process_job.        *)
(***************************************************************************)
EXTENDS Integers, Sequences, FiniteSets, TLC

VARIABLES
    staging,      \* committed rows of the staging table, one record per load
    normalized,   \* committed rows of the normalized table
    jobStatus,    \* upload_jobs.status per job id ("absent": no row)
    jobEvents,    \* upload_job_events per job id, in insertion order
    jobResult,    \* upload_job_results per job id (NoResult: no row)
    jobContent,   \* workbook the job's payload points at
    queue,        \* job ids placed on the work queue
    wk,           \* per worker: position in process_job / run_pipeline and locals
    nRuns,        \* number of run_pipeline invocations (direct store calls) so far
    cliOut,       \* outcome of the last pipeline.cli invocation
    storeOut,     \* outcome of the last direct job_store call
    overlapOut,   \* arguments and outcome of the last direct check_time_overlap call
    resultRows,   \* number of upload_job_results rows per job id
    configRows,   \* rows of the sheet configuration table, in SELECT order
    configCache,  \* cached parsed sheet configuration of the connection settings
    stagingColumns, \* the staging table: whether it exists and its business columns
    configOut,    \* the last configuration resolver operation and its outcome
    usedIdentifiers, \* the set of identifiers shared by sanitize_identifier calls
    sanitizeCalls, \* names passed to sanitize_identifier and what it returned, in call order
    batchOut      \* arguments and outcome of the last direct normalization, validation or loader call

(* state of the upload pipeline, the job store and the overlap check *)
pipelineVars == <<staging, normalized, jobStatus, jobEvents, jobResult, jobContent,
                  queue, wk, nRuns, cliOut, storeOut, overlapOut,
                  resultRows>>

(* state of the library functions that are called on their own *)
configVars == <<configRows, configCache, stagingColumns, configOut>>
identVars == <<usedIdentifiers, sanitizeCalls>>
libVars == <<configVars, identVars, batchOut>>

vars == <<pipelineVars, libVars>>


-----------------------------------------------------------------------------
(* Bounds of the model *)

MaxJobs == 2
MaxRuns == 2
MaxCalls == 4

Workers == {"w1", "w2"}
JobIds == 1..MaxJobs

(* Workbooks: "a" (three data rows) and "b" (two) cover intersecting
   periods, "e" has a header and no data rows. *)
Contents == {"a", "b", "e"}

Rows(c) == CASE c = "a" -> 3 [] c = "b" -> 2 [] OTHER -> 0

(* rows of the workbook that fail type coercion *)
Bad(c) == CASE c = "b" -> 1 [] OTHER -> 0

(* the period the workbook's rows cover, as <<start, end>> *)
Range(c) == CASE c = "a" -> <<1, 2>> [] c = "b" -> <<2, 3>> [] OTHER -> <<5, 5>>

Policies == {"append", "replace", "skip"}

NoJob == 0
NoResult == [none |-> TRUE]

-----------------------------------------------------------------------------
(* prep_excel: the sheet configuration, its cache and its lookup *)

MaxConfigRows == 2
MaxScripts == 2

SheetNames == {"S", "T"}

(* workbook_type as requested by a lookup *)
WorkbookTypes == {"default", "custom", "other"}

(* workbook_type as stored in a row: "" stands for a NULL or blank value *)
StoredWorkbookTypes == {"", "custom"}

(* table names as sequences of parts; "_raw" is the staging suffix *)
StagingTables == {<<"a", "_raw">>, <<"b">>}

(* options.normalized_table of a row: <<>> when the option is absent or blank *)
NormalizedOptions == {<<>>, <<"x">>}

ConfigRowValues ==
    [workbook_type : StoredWorkbookTypes, sheet_name : SheetNames,
     staging_table : StagingTables, normalized_table : NormalizedOptions]

ConfigTables == UNION {[1..n -> ConfigRowValues] : n \in 0..MaxConfigRows}

ConfigKeys == WorkbookTypes \X SheetNames

NoEntry == [none |-> TRUE]
NoConfigCache == [cached |-> FALSE]
NoStagingTable == [exists |-> FALSE, columns |-> {}]
NoConfigCall == [kind |-> "none"]
NoBatchCall == [kind |-> "none"]

WorkbookTypeOf(row) ==
    IF row.workbook_type = "" THEN "default" ELSE row.workbook_type

NormalizedTableSource(row) ==
    IF row.normalized_table # <<>> THEN "explicit"
    ELSE IF row.staging_table # <<>> THEN "derived"
    ELSE "none"

DeriveNormalizedTable(staging_table) ==
    LET n == Len(staging_table)
        base_table == IF n > 0 /\ staging_table[n] = "_raw"
                      THEN SubSeq(staging_table, 1, n - 1)
                      ELSE staging_table
    IN  base_table \o <<"_normalized">>

NormalizedTableOf(row) ==
    CASE NormalizedTableSource(row) = "explicit" -> row.normalized_table
      [] NormalizedTableSource(row) = "derived" -> DeriveNormalizedTable(row.staging_table)
      [] OTHER -> <<>>

ConfigEntry(row) ==
    [table |-> row.staging_table, normalized_table |-> NormalizedTableOf(row)]

(* one iteration of the loop over the rows: acc holds config and
   normalized_sources *)
ParseRowLastWins(acc, row) ==
    LET key == <<WorkbookTypeOf(row), row.sheet_name>>
    IN  [types |-> acc.types \cup {WorkbookTypeOf(row)},
         entry |-> [acc.entry EXCEPT ![key] = ConfigEntry(row)],
         source |-> [acc.source EXCEPT ![key] = NormalizedTableSource(row)]]

ParseRow(acc, row) ==
    LET key == <<WorkbookTypeOf(row), row.sheet_name>>
    IN  IF /\ acc.entry[key] # NoEntry
           /\ acc.source[key] = "explicit"
           /\ NormalizedTableSource(row) # "explicit"
        THEN [acc EXCEPT !.types = @ \cup {WorkbookTypeOf(row)}]
        ELSE [types |-> acc.types \cup {WorkbookTypeOf(row)},
              entry |-> [acc.entry EXCEPT ![key] = ConfigEntry(row)],
              source |-> [acc.source EXCEPT ![key] = NormalizedTableSource(row)]]

RECURSIVE ParseRows(_, _)
ParseRows(rows, acc) ==
    IF rows = <<>> THEN acc
    ELSE ParseRows(Tail(rows), ParseRow(acc, Head(rows)))

ParseSheetConfigRows(rows) ==
    LET acc == ParseRows(rows, [types |-> {},
                                entry |-> [k \in ConfigKeys |-> NoEntry],
                                source |-> [k \in ConfigKeys |-> "none"]])
    IN  [types |-> acc.types, entry |-> acc.entry]

(* _get_sheet_config: the configuration, the cache afterwards, and whether the
   database was read *)
GetSheetConfig(cache, rows, connection) ==
    IF connection
    THEN [config |-> ParseSheetConfigRows(rows), cache |-> cache, loaded |-> TRUE]
    ELSE IF cache.cached
    THEN [config |-> cache.config, cache |-> cache, loaded |-> FALSE]
    ELSE [config |-> ParseSheetConfigRows(rows),
          cache |-> [cached |-> TRUE, config |-> ParseSheetConfigRows(rows)],
          loaded |-> TRUE]

GetTableConfigDefaultOnly(config, sheet, workbook_type) ==
    IF config.entry[<<"default", sheet>>] # NoEntry
    THEN [raised |-> "none", entry |-> config.entry[<<"default", sheet>>]]
    ELSE [raised |-> "Unsupported sheet name", entry |-> NoEntry]

GetTableConfig(config, sheet, workbook_type) ==
    IF workbook_type \in config.types /\ config.entry[<<workbook_type, sheet>>] # NoEntry
    THEN [raised |-> "none", entry |-> config.entry[<<workbook_type, sheet>>]]
    ELSE IF workbook_type # "default" /\ config.entry[<<"default", sheet>>] # NoEntry
    THEN [raised |-> "none", entry |-> config.entry[<<"default", sheet>>]]
    ELSE IF workbook_type \notin config.types /\ workbook_type # "default"
    THEN [raised |-> "Unsupported workbook type", entry |-> NoEntry]
    ELSE [raised |-> "Unsupported sheet name", entry |-> NoEntry]

(* a call of _get_table_config, with a connection or with the settings *)
GetTableConfigCall(sheet, workbook_type, connection) ==
    LET got == GetSheetConfig(configCache, configRows, connection)
        found == GetTableConfig(got.config, sheet, workbook_type)
    IN  /\ configCache' = got.cache
        /\ configOut' = [kind |-> "get_table_config", sheet |-> sheet,
                         workbook_type |-> workbook_type, connection |-> connection,
                         loaded |-> got.loaded, ddl |-> FALSE,
                         raised |-> found.raised, entry |-> found.entry]
        /\ UNCHANGED <<pipelineVars, identVars, batchOut, configRows, stagingColumns>>

(* the library state while only the pipeline is exercised *)
InitLib ==
    /\ configRows = <<>>
    /\ configCache = NoConfigCache
    /\ stagingColumns = [t \in StagingTables |-> NoStagingTable]
    /\ configOut = NoConfigCall
    /\ usedIdentifiers = {}
    /\ sanitizeCalls = <<>>
    /\ batchOut = NoBatchCall

-----------------------------------------------------------------------------
(* job_store *)

JobExists(status, j) == j \in DOMAIN status /\ status[j] # "absent"

(* a create_job that reports success and inserts nothing *)
CreateJobNotPersisted(st, j, status, message) == [st EXCEPT !.ok = TRUE]

(* create_job: one transaction inserting the upload_jobs row and, when a
   status message is given, the first event.  A duplicate job id is an
   IntegrityError: rollback, nothing stored. *)
CreateJob(st, j, status, message) ==
    IF JobExists(st.status, j)
    THEN [st EXCEPT !.ok = FALSE]
    ELSE [st EXCEPT !.status[j] = status,
                    !.events[j] = IF message = "null" THEN <<>>
                                  ELSE <<[status |-> status, message |-> message]>>,
                    !.ok = TRUE]

(* set_status that updates the job row and inserts no event *)
SetStatusNoEvent(st, j, status, message) ==
    IF JobExists(st.status, j)
    THEN [st EXCEPT !.status[j] = status, !.ok = TRUE]
    ELSE [st EXCEPT !.ok = FALSE]

(* set_status without the existence check and its rollback *)
SetStatusUnchecked(st, j, status, message) ==
    LET updated == IF JobExists(st.status, j)
                   THEN [st EXCEPT !.status[j] = status] ELSE st
    IN  [updated EXCEPT !.events[j] = Append(@, [status |-> status, message |-> message]),
                        !.ok = TRUE]

(* set_status: UPDATE upload_jobs, existence check when no row was changed,
   INSERT of the event, commit; any exception rolls the transaction back. *)
SetStatus(st, j, status, message) ==
    LET rowcount == IF JobExists(st.status, j) /\ st.status[j] # status THEN 1 ELSE 0
        updated  == IF JobExists(st.status, j)
                    THEN [st EXCEPT !.status[j] = status] ELSE st
        missing  == rowcount = 0 /\ ~JobExists(st.status, j)
        inserted == [updated EXCEPT !.events[j] =
                        Append(@, [status |-> status, message |-> message])]
    IN  IF missing THEN [st EXCEPT !.ok = FALSE]
        ELSE [inserted EXCEPT !.ok = TRUE]

(* the key of upload_job_results is job_id: an INSERT for a job id that
   already has a row is a duplicate-key hit *)
DuplicateKey(rows, j) == rows[j] > 0

(* a record_results that inserts a row on every call and leaves the values
   of an existing row as they are *)
RecordResultsPlainInsert(st, j, total, processed, rejected, table) ==
    [st EXCEPT !.result[j] =
        IF @ = NoResult
        THEN [total_rows |-> total, processed_rows |-> processed,
              successful_rows |-> processed, rejected_rows |-> rejected,
              normalized_table_name |-> table, rejected_rows_path |-> FALSE]
        ELSE @,
     !.rows[j] = @ + 1,
     !.ok = TRUE]

(* record_results: INSERT ... ON DUPLICATE KEY UPDATE on upload_job_results,
   whose key is job_id: a first call inserts the job's row, a later call
   finds the key and updates the row; every listed column takes the value of
   this call, rejected_rows_path is not listed. *)
RecordResults(st, j, total, processed, rejected, table) ==
    [st EXCEPT !.rows[j] = IF DuplicateKey(st.rows, j) THEN @ ELSE @ + 1,
               !.result[j] =
        [total_rows |-> total, processed_rows |-> processed,
         successful_rows |-> processed, rejected_rows |-> rejected,
         normalized_table_name |-> table,
         rejected_rows_path |-> IF @ = NoResult THEN FALSE ELSE @.rejected_rows_path],
     !.ok = TRUE]

(* a save_rejected_rows_path that creates the result row it does not find *)
SaveRejectedRowsPathUpsert(st, j, path) ==
    IF st.result[j] = NoResult
    THEN [st EXCEPT !.result[j] =
             [total_rows |-> 0, processed_rows |-> 0, successful_rows |-> 0,
              rejected_rows |-> 0, normalized_table_name |-> FALSE,
              rejected_rows_path |-> path],
          !.rows[j] = 1, !.ok = TRUE]
    ELSE [st EXCEPT !.result[j].rejected_rows_path = path, !.ok = TRUE]

(* save_rejected_rows_path: UPDATE of the existing result row; no row changed
   raises and rolls back. *)
SaveRejectedRowsPath(st, j, path) ==
    IF st.result[j] = NoResult
    THEN [st EXCEPT !.ok = FALSE]
    ELSE [st EXCEPT !.result[j].rejected_rows_path = path, !.ok = TRUE]

(* the status helpers process_job and enqueue_job call *)
MarkParsing(st, j, message) == SetStatus(st, j, "Parsing", message)
MarkValidating(st, j, message) == SetStatus(st, j, "Validating", message)
MarkLoaded(st, j, message) == SetStatus(st, j, "Loaded", message)
MarkError(st, j, message) == SetStatus(st, j, "Error", message)

(* the store as the job_store functions see it *)
Store == [status |-> jobStatus, events |-> jobEvents, result |-> jobResult,
          rows |-> resultRows, ok |-> TRUE]

(* writes a store value back to the tables *)
Commit(st) ==
    /\ jobStatus' = st.status
    /\ jobEvents' = st.events
    /\ jobResult' = st.result
    /\ resultRows' = st.rows

-----------------------------------------------------------------------------
(* tables *)

(* prep_excel._staging_file_hash_exists: SELECT 1 ... WHERE file_hash = %s LIMIT 1 *)
StagingFileHashExists(rows, h) == \E r \in rows : r.hash = h

(* pipeline._fetch_staging_rows: rows of the hash not yet processed *)
FetchStagingRows(rows, h) == {r \in rows : r.hash = h /\ ~r.processed}

(* an interval test with strict comparisons *)
IntersectsStrict(row, iv) == row.lo < iv[2] /\ row.hi > iv[1]

(* the interval test of check_time_overlap and _delete_overlapping_rows:
   stored_start <= requested_end AND stored_end >= requested_start *)
Intersects(row, iv) == row.lo <= iv[2] /\ row.hi >= iv[1]

(* job_runner.check_time_overlap: one entry per requested interval and
   intersecting stored record; nothing to check without requested ranges *)
CheckTimeOverlap(table, ranges) ==
    IF ranges = <<>> THEN {}
    ELSE UNION {{[req |-> ranges[i], rec |-> row] :
                    row \in {r \in table : Intersects(r, ranges[i])}} :
                i \in DOMAIN ranges}

(* instants of the time axis; only their order matters to the interval test *)
MaxDay == 4
Days == 1..MaxDay

(* sample of the characters a configured name can hold: letters, a digit and
   the underscore are in [A-Za-z0-9_], the others are not *)
SafeChars == {"n", "p", "1", "_"}

(* _validate_identifier: re.fullmatch(r"[A-Za-z0-9_]+") accepts a name made of
   one or more pattern characters and nothing else *)
ValidateIdentifierLax(identifier) == TRUE

ValidateIdentifier(identifier) ==
    /\ Len(identifier) > 0
    /\ \A i \in 1..Len(identifier) : identifier[i] \in SafeChars

(* the one table of the database that holds stored intervals, and its
   <column>_start / <column>_end base column *)
StoredTable == <<"n", "1">>
StoredColumn == <<"p">>

NoOverlapCall ==
    [kind |-> "none", target_table |-> <<>>, time_range_column |-> <<>>,
     time_ranges |-> <<>>, overlaps |-> {}, connected |-> FALSE, error |-> "none"]

(* job_runner.check_time_overlap as a whole: a missing table, column or list
   of ranges returns the empty list at once; then both names are validated;
   then the connection is opened and one SELECT per requested interval runs.
   The SELECT on a table the database does not hold raises, the finally
   clause closes the connection, and no handler catches the error. *)
CheckTimeOverlapCall(target_table, time_range_column, time_ranges, table) ==
    LET out(kind, overlaps, connected, error) ==
            [kind |-> kind, target_table |-> target_table,
             time_range_column |-> time_range_column, time_ranges |-> time_ranges,
             overlaps |-> overlaps, connected |-> connected, error |-> error]
    IN  IF target_table = <<>> \/ time_range_column = <<>> \/ time_ranges = <<>>
        THEN out("returned", {}, FALSE, "none")
        ELSE IF ~ValidateIdentifier(target_table) \/ ~ValidateIdentifier(time_range_column)
        THEN out("raised", {}, FALSE, "unsafe_identifier")
        ELSE IF target_table # StoredTable
        THEN out("raised", {}, TRUE, "no_such_table")
        ELSE out("returned", CheckTimeOverlap(table, time_ranges), TRUE, "none")

(* pipeline._dedupe_intervals *)
DedupeIntervals(overlaps) == {o.req : o \in overlaps}

(* a delete that matches only rows inside a requested interval *)
DeleteOverlappingRowsContained(table, overlaps) ==
    {r \in table : \E iv \in DedupeIntervals(overlaps) : iv[1] <= r.lo /\ r.hi <= iv[2]}

(* pipeline._delete_overlapping_rows: the rows its DELETE statements remove *)
DeleteOverlappingRows(table, overlaps) ==
    {r \in table : \E iv \in DedupeIntervals(overlaps) : Intersects(r, iv)}

(* an UPDATE that matches every row of the hash, marked or not *)
MarkStagingRowsProcessedAll(rows, rowIds, h) ==
    IF rowIds = {} THEN {}
    ELSE {r \in rows : r.hash = h}

(* normalize_staging.mark_staging_rows_processed: the rows its UPDATE matches *)
MarkStagingRowsProcessed(rows, rowIds, h) ==
    IF rowIds = {} THEN {}
    ELSE {r \in rows : r.hash = h /\ ~r.processed}

(* rows of one staging load that coerce cleanly, and those that do not *)
Good(r) == Rows(r.hash) - Bad(r.hash)
Rejected(r) == Bad(r.hash)

RECURSIVE SumGood(_)
SumGood(S) ==
    IF S = {} THEN 0
    ELSE LET x == CHOOSE y \in S : TRUE IN Good(x) + SumGood(S \ {x})

RECURSIVE SumRejected(_)
SumRejected(S) ==
    IF S = {} THEN 0
    ELSE LET x == CHOOSE y \in S : TRUE IN Rejected(x) + SumRejected(S \ {x})

(* prepare_normalization: coercion splits the fetched rows into normalized
   rows and rejected rows; a row that fails coercion is rejected, not raised *)
PrepareNormalization(fetched) ==
    [normalized_rows |-> SumGood(fetched),
     rejected_rows |-> SumRejected(fetched)]

(* validation.validate_rows with the pipeline's default (empty) check list:
   every prepared row stays accepted, the rejections are the coercion-phase
   ones, one error string per rejection, and the artifact is written only
   for a job with rejections *)
ValidateRows(job, prepared) ==
    [normalized_rows |-> prepared.normalized_rows,
     rejected_rows |-> prepared.rejected_rows,
     errors |-> prepared.rejected_rows,
     rejected_rows_path |-> job # NoJob /\ prepared.rejected_rows > 0]

(* the normalized rows a run inserts for the staging rows it fetched *)
NormalizedRowsFor(fetched, run) ==
    {[raw |-> r.batch, hash |-> r.hash, lo |-> Range(r.hash)[1],
      hi |-> Range(r.hash)[2], n |-> Good(r), by |-> run] :
        r \in {x \in fetched : Good(x) > 0}}

-----------------------------------------------------------------------------
(* workers *)

IdleWorker ==
    [pc |-> "idle", job |-> NoJob, content |-> "a", ranges |-> <<>>,
     policy |-> "append", run |-> 0, gateHit |-> FALSE, hash |-> "none",
     txLoad |-> {}, staged |-> 0, fetched |-> {}, tables |-> FALSE,
     rejected |-> 0, errors |-> 0, path |-> FALSE, overlaps |-> {},
     txDel |-> {}, txIns |-> {}, txMark |-> {}, inserted |-> 0,
     processed |-> FALSE, exc |-> "none", site |-> "none", result |-> NoResult,
     recorded |-> 0]

Resting == {"idle", "returned", "raised", "crashed"}

(* a result that leaves the normalized count at its initial zero *)
PipelineResultNoInsertCount(l, rejected, skipped) ==
    [file_hash |-> l.hash, staged_rows |-> l.staged,
     normalized_rows |-> 0, inserted_count |-> 0,
     rejected_rows |-> rejected, validation_errors |-> l.errors,
     rejected_rows_path |-> l.path, normalized_table |-> l.tables,
     processed_at |-> l.processed, conflict_resolution |-> l.policy,
     skipped |-> skipped]

(* PipelineResult as run_pipeline assembles it from its locals *)
PipelineResult(l, rejected, skipped) ==
    [file_hash |-> l.hash, staged_rows |-> l.staged,
     normalized_rows |-> l.inserted, inserted_count |-> l.inserted,
     rejected_rows |-> rejected, validation_errors |-> l.errors,
     rejected_rows_path |-> l.path, normalized_table |-> l.tables,
     processed_at |-> l.processed, conflict_resolution |-> l.policy,
     skipped |-> skipped]

(* where control goes when run_pipeline ends: back into process_job for a
   job, to the caller otherwise *)
AfterRun(l, exc) ==
    IF l.job # NoJob THEN "record"
    ELSE IF exc = "none" THEN "returned" ELSE "raised"

(* run_pipeline returns result r *)
Return(l, r) ==
    [IdleWorker EXCEPT !.pc = AfterRun(l, "none"), !.job = l.job, !.content = l.content,
                       !.ranges = l.ranges, !.policy = l.policy, !.hash = l.hash,
                       !.gateHit = l.gateHit, !.overlaps = l.overlaps,
                       !.result = r, !.exc = "none"]

(* run_pipeline raises PipelineExecutionError carrying result r for the
   failure at the named site; the open transaction is rolled back *)
Raise(l, r, site) ==
    [IdleWorker EXCEPT !.pc = AfterRun(l, "pipeline"), !.job = l.job, !.content = l.content,
                       !.ranges = l.ranges, !.policy = l.policy, !.hash = l.hash,
                       !.gateHit = l.gateHit, !.overlaps = l.overlaps,
                       !.result = r, !.exc = "pipeline", !.site = site]

InitPipeline ==
    /\ staging = {}
    /\ normalized = {}
    /\ jobStatus = [j \in JobIds |-> "absent"]
    /\ jobEvents = [j \in JobIds |-> <<>>]
    /\ jobResult = [j \in JobIds |-> NoResult]
    /\ jobContent = [j \in JobIds |-> "a"]
    /\ queue = {}
    /\ wk = [w \in Workers |-> IdleWorker]
    /\ nRuns = 0
    /\ cliOut = [kind |-> "none", overlaps |-> {}]
    /\ storeOut = [kind |-> "none"]
    /\ overlapOut = NoOverlapCall
    /\ resultRows = [j \in JobIds |-> 0]

Init == InitPipeline /\ InitLib

-----------------------------------------------------------------------------
(* job_runner: enqueue *)

(* a limit test that also rejects a value equal to the limit *)
EnforceLimitsInclusive(file_size, row_count, max_file_size, max_rows) ==
    file_size >= max_file_size \/ row_count >= max_rows

(* _enforce_limits: strictly greater than the limit is rejected *)
EnforceLimits(file_size, row_count, max_file_size, max_rows) ==
    file_size > max_file_size \/ row_count > max_rows

(* enqueue_job: create the job row (Queued, first event), enforce the limits
   (mark_error and raise when exceeded), then place the job on the queue *)
EnqueueJob(st, j, exceeded) ==
    LET created == CreateJob(st, j, "Queued", "Queued for processing")
    IN  IF exceeded
        THEN [store |-> MarkError(created, j, "limit exceeded"), enqueued |-> FALSE]
        ELSE [store |-> created, enqueued |-> TRUE]

FreshJobId == CHOOSE j \in JobIds : jobStatus[j] = "absent" /\
                                     \A k \in JobIds : k < j => jobStatus[k] # "absent"

Sizes == {1, 2}

(* requested time ranges and conflict policy of a call: no ranges (the policy
   then decides nothing, append stands for all three), the workbook's own
   period under each policy, or that period and a second one under replace *)
RunInputs(c) ==
    {[ranges |-> <<>>, policy |-> "append"]} \cup
    {[ranges |-> <<Range(c)>>, policy |-> p] : p \in Policies} \cup
    {[ranges |-> <<Range(c), <<5, 5>>>>, policy |-> "replace"]}

(* api.create_upload_job: enqueue_job with the request's size and row count *)
CreateUploadJob(c, size, rows) ==
    /\ \E j \in JobIds : jobStatus[j] = "absent"
    /\ LET j == FreshJobId
           r == EnqueueJob(Store, j, EnforceLimits(size, rows, 1, 1))
       IN  /\ Commit(r.store)
           /\ jobContent' = [jobContent EXCEPT ![j] = c]
           /\ queue' = IF r.enqueued THEN queue \cup {j} ELSE queue
    /\ UNCHANGED <<staging, normalized, wk, nRuns, cliOut, storeOut, overlapOut, libVars>>

(* pipeline.cli: overlap check first; under append any overlap ends the call
   (overlaps printed, exit status 1) before enqueue_job is reached.  Otherwise
   cli calls enqueue_job with time_ranges= and conflict_resolution=, keywords
   enqueue_job does not take: the call raises before enqueue_job's body runs
   and cli's generic handler exits with status 1. *)
CliOutcome(table, ranges, policy) ==
    LET overlaps == CheckTimeOverlap(table, ranges)
    IN  IF overlaps # {} /\ policy = "append"
        THEN [kind |-> "overlap", overlaps |-> overlaps]
        ELSE [kind |-> "failed", overlaps |-> {}]

Cli(c, ranges, policy) ==
    /\ cliOut' = CliOutcome(normalized, ranges, policy)
    /\ UNCHANGED <<staging, normalized, jobStatus, jobEvents, jobResult,
                   jobContent, queue, wk, nRuns, storeOut, overlapOut, resultRows, libVars>>

-----------------------------------------------------------------------------
(* job_runner.process_job and pipeline.run_pipeline, step by step *)

(* a process_job that passes the workbook's period and the replace policy
   on to run_pipeline *)
DeliverWithRequest(w, j) ==
    /\ wk[w].pc \in Resting
    /\ j \in queue
    /\ \A v \in Workers \ {w} : wk[v].job # j
    /\ nRuns < MaxRuns
    /\ nRuns' = nRuns + 1
    /\ wk' = [wk EXCEPT ![w] = [IdleWorker EXCEPT !.pc = "prep", !.job = j,
                                    !.content = jobContent[j], !.run = nRuns + 1,
                                    !.ranges = <<Range(jobContent[j])>>,
                                    !.policy = "replace"]]
    /\ Commit(MarkParsing(Store, j, "null"))
    /\ UNCHANGED <<staging, normalized, jobContent, queue, cliOut, storeOut, overlapOut, libVars>>

(* the transport hands job j to worker w: process_job calls run_pipeline,
   whose first act is the Parsing notification *)
Deliver(w, j) ==
    /\ wk[w].pc \in Resting
    /\ j \in queue
    /\ \A v \in Workers \ {w} : wk[v].job # j
    /\ nRuns < MaxRuns
    /\ nRuns' = nRuns + 1
    /\ wk' = [wk EXCEPT ![w] = [IdleWorker EXCEPT !.pc = "prep", !.job = j,
                                    !.content = jobContent[j], !.run = nRuns + 1]]
    /\ Commit(MarkParsing(Store, j, "null"))
    /\ UNCHANGED <<staging, normalized, jobContent, queue, cliOut, storeOut, overlapOut, libVars>>

(* a generic handler that records the job as loaded *)
UnexpectedStatusLoaded(st, j) == MarkLoaded(st, j, "null")

(* process_job's handler for an exception that is not a
   PipelineExecutionError: mark_error with the generic message *)
UnexpectedStatus(st, j) == MarkError(st, j, "Unexpected error")

(* the queue hands job j to worker w and the Parsing notification, which
   run_pipeline sends before its own try block, raises (the job store's
   transaction fails): the exception reaches process_job's generic handler,
   which calls mark_error and re-raises.  The Error write itself succeeds
   or fails with the store. *)
DeliverUnexpected(w, j, written) ==
    /\ wk[w].pc \in Resting
    /\ j \in queue
    /\ \A v \in Workers \ {w} : wk[v].job # j
    /\ nRuns < MaxRuns
    /\ nRuns' = nRuns + 1
    /\ wk' = [wk EXCEPT ![w] = [IdleWorker EXCEPT !.pc = "raised", !.job = j,
                                    !.run = nRuns + 1,
                                    !.exc = "unexpected", !.site = "notify"]]
    /\ Commit(IF written THEN UnexpectedStatus(Store, j) ELSE Store)
    /\ UNCHANGED <<staging, normalized, jobContent, queue, cliOut, storeOut, overlapOut, libVars>>

(* run_pipeline called directly, without a job id or a status notifier *)
DirectRun(w, c, ranges, policy) ==
    /\ wk[w].pc \in Resting
    /\ nRuns < MaxRuns
    /\ nRuns' = nRuns + 1
    /\ wk' = [wk EXCEPT ![w] = [IdleWorker EXCEPT !.pc = "prep", !.content = c,
                                    !.ranges = ranges, !.policy = policy,
                                    !.run = nRuns + 1]]
    /\ UNCHANGED <<staging, normalized, jobStatus, jobEvents, jobResult,
                   jobContent, queue, cliOut, storeOut, overlapOut, resultRows, libVars>>

(* prep_excel.main without the deduplication gate *)
PrepStepNoGate(l, rows) == [l EXCEPT !.hash = l.content, !.pc = "load_begin"]

(* prep_excel.main: hash the workbook and consult the deduplication gate;
   on a hit run_pipeline returns the skipped result *)
PrepStep(l, rows) ==
    LET h == [l EXCEPT !.hash = l.content]
    IN  IF StagingFileHashExists(rows, h.hash)
        THEN Return([h EXCEPT !.gateHit = TRUE], PipelineResult(h, 0, TRUE))
        ELSE [h EXCEPT !.pc = "load_begin"]

Prep(w) ==
    /\ wk[w].pc = "prep"
    /\ wk' = [wk EXCEPT ![w] = PrepStep(wk[w], staging)]
    /\ UNCHANGED <<staging, normalized, jobStatus, jobEvents, jobResult,
                   jobContent, queue, nRuns, cliOut, storeOut, overlapOut, resultRows, libVars>>

(* load_csv_into_staging up to the bulk insert: begin, @@local_infile check,
   deduplication re-check against what the transaction can read *)
LoaderBeginStep(l, rows, infile) ==
    IF ~infile THEN Raise(l, PipelineResult(l, 0, FALSE), "local_infile")
    ELSE IF StagingFileHashExists(rows, l.hash)
    THEN Raise(l, PipelineResult(l, 0, FALSE), "recheck")
    ELSE [l EXCEPT !.pc = "load"]

LoaderBegin(w, infile) ==
    /\ wk[w].pc = "load_begin"
    /\ wk' = [wk EXCEPT ![w] = LoaderBeginStep(wk[w], staging, infile)]
    /\ UNCHANGED <<staging, normalized, jobStatus, jobEvents, jobResult,
                   jobContent, queue, nRuns, cliOut, storeOut, overlapOut, resultRows, libVars>>

(* the rows LOAD DATA writes inside the loader's transaction *)
LoadedRows(l) ==
    IF Rows(l.content) = 0 THEN {}
    ELSE {[hash |-> l.hash, batch |-> l.run, n |-> Rows(l.content),
           processed |-> FALSE]}

(* a rollback that keeps the rows of the transaction *)
LoaderRollbackKeeps(rows, tx) == rows \cup tx

(* what the staging table holds after the loader's rollback / commit *)
LoaderRollback(rows, tx) == rows
LoaderCommitRows(rows, tx) == rows \cup tx

(* LOAD DATA and the affected-row check; ok = FALSE is a statement error *)
LoaderLoad(w, ok) ==
    /\ wk[w].pc = "load"
    /\ LET l == [wk[w] EXCEPT !.txLoad = LoadedRows(wk[w])]
       IN  IF ~ok \/ Rows(l.content) = 0
           THEN /\ staging' = LoaderRollback(staging, l.txLoad)
                /\ wk' = [wk EXCEPT ![w] = Raise(l, PipelineResult(l, 0, FALSE),
                                                  IF ok THEN "empty" ELSE "load")]
           ELSE /\ staging' = staging
                /\ wk' = [wk EXCEPT ![w] = [l EXCEPT !.pc = "load_commit"]]
    /\ UNCHANGED <<normalized, jobStatus, jobEvents, jobResult,
                   jobContent, queue, nRuns, cliOut, storeOut, overlapOut, resultRows, libVars>>

LoaderCommit(w) ==
    /\ wk[w].pc = "load_commit"
    /\ staging' = LoaderCommitRows(staging, wk[w].txLoad)
    /\ wk' = [wk EXCEPT ![w] = [wk[w] EXCEPT !.staged = Rows(wk[w].content), !.txLoad = {},
                                         !.pc = "prepare"]]
    /\ UNCHANGED <<normalized, jobStatus, jobEvents, jobResult,
                   jobContent, queue, nRuns, cliOut, storeOut, overlapOut, resultRows, libVars>>

(* table config, fetch of the unprocessed staging rows of the hash,
   prepare_normalization, ensure_normalized_schema, Validating notification *)
Prepare(w) ==
    /\ wk[w].pc = "prepare"
    /\ wk' = [wk EXCEPT ![w] = [wk[w] EXCEPT !.tables = TRUE,
                                         !.fetched = FetchStagingRows(staging, wk[w].hash),
                                         !.pc = "validate"]]
    /\ IF wk[w].job # NoJob
       THEN Commit(MarkValidating(Store, wk[w].job, "null"))
       ELSE UNCHANGED <<jobStatus, jobEvents, jobResult, resultRows, libVars>>
    /\ UNCHANGED <<staging, normalized, jobContent, queue, nRuns, cliOut, storeOut, overlapOut, libVars>>

(* validate_rows, check_time_overlap, connection.begin() *)
Validate(w) ==
    /\ wk[w].pc = "validate"
    /\ LET v == ValidateRows(wk[w].job, PrepareNormalization(wk[w].fetched))
       IN  wk' = [wk EXCEPT ![w] = [wk[w] EXCEPT !.rejected = v.rejected_rows,
                                            !.errors = v.errors,
                                            !.path = v.rejected_rows_path,
                                            !.overlaps = CheckTimeOverlap(normalized, wk[w].ranges),
                                            !.pc = "norm"]]
    /\ UNCHANGED <<staging, normalized, jobStatus, jobEvents, jobResult,
                   jobContent, queue, nRuns, cliOut, storeOut, overlapOut, resultRows, libVars>>

(* deleting the overlapped rows whatever the policy *)
RowsToDeleteAnyPolicy(policy, overlaps, table) ==
    IF overlaps # {} THEN DeleteOverlappingRows(table, overlaps) ELSE {}

(* the rows the normalization transaction deletes: only replace deletes *)
RowsToDelete(policy, overlaps, table) ==
    IF overlaps # {} /\ policy = "replace"
    THEN DeleteOverlappingRows(table, overlaps)
    ELSE {}

(* a run that never takes the skip branch *)
SkipBranchNever(l) == FALSE

SkipBranch(l) == l.overlaps # {} /\ l.policy = "skip"

(* the statements of the normalization transaction, up to the commit;
   failAt names the statement that raises, if any *)
NormWriteStep(l, rows, table, failAt) ==
    LET marks == MarkStagingRowsProcessed(rows, l.fetched, l.hash)
        marked == [l EXCEPT !.txMark = marks, !.processed = l.fetched # {}]
    IN  IF SkipBranch(l)
        THEN IF failAt = "mark"
             THEN Raise(l, PipelineResult(l, l.rejected, FALSE), "mark")
             ELSE [marked EXCEPT !.pc = "norm_commit"]
        ELSE LET d == [l EXCEPT !.txDel = RowsToDelete(l.policy, l.overlaps, table)]
                 i == [d EXCEPT !.txIns = NormalizedRowsFor(l.fetched, l.run),
                                !.inserted = SumGood(l.fetched)]
             IN  IF failAt = "insert"
                 THEN Raise(d, PipelineResult(d, d.rejected, FALSE), "insert")
                 ELSE IF failAt = "mark"
                 THEN Raise(i, PipelineResult(i, i.rejected, FALSE), "mark")
                 ELSE [i EXCEPT !.txMark = marks, !.processed = l.fetched # {},
                                !.pc = "norm_commit"]

NormWrite(w, failAt) ==
    /\ wk[w].pc = "norm"
    /\ wk' = [wk EXCEPT ![w] = NormWriteStep(wk[w], staging, normalized, failAt)]
    /\ UNCHANGED <<staging, normalized, jobStatus, jobEvents, jobResult,
                   jobContent, queue, nRuns, cliOut, storeOut, overlapOut, resultRows, libVars>>

(* connection.commit() of the normalization transaction *)
CommitNormalized(table, del, ins) == (table \ del) \cup ins

(* a commit that loses the processed marks *)
CommitMarksNone(rows, marks) == rows

CommitMarks(rows, marks) ==
    {IF r \in marks THEN [r EXCEPT !.processed = TRUE] ELSE r : r \in rows}

NormCommit(w) ==
    /\ wk[w].pc = "norm_commit"
    /\ normalized' = CommitNormalized(normalized, wk[w].txDel, wk[w].txIns)
    /\ staging' = CommitMarks(staging, wk[w].txMark)
    /\ wk' = [wk EXCEPT ![w] =
                 Return(wk[w], PipelineResult(wk[w], wk[w].rejected, SkipBranch(wk[w])))]
    /\ UNCHANGED <<jobStatus, jobEvents, jobResult,
                   jobContent, queue, nRuns, cliOut, storeOut, overlapOut, resultRows, libVars>>

(* process_job not recording the result *)
RecordJobResultsDropped(st, j, r) == st

(* _record_job_results: record_results, then save_rejected_rows_path when
   the result names an artifact *)
RecordJobResults(st, j, r) ==
    LET recorded == RecordResults(st, j, r.staged_rows, r.inserted_count,
                                  r.rejected_rows, r.normalized_table)
    IN  IF r.rejected_rows_path
        THEN SaveRejectedRowsPath(recorded, j, TRUE)
        ELSE recorded

(* process_job after run_pipeline ended (returned, or raised
   PipelineExecutionError with a result): record the results *)
Record(w) ==
    /\ wk[w].pc = "record"
    /\ Commit(RecordJobResults(Store, wk[w].job, wk[w].result))
    /\ wk' = [wk EXCEPT ![w] = [wk[w] EXCEPT !.recorded = wk[w].recorded + 1, !.pc = "mark"]]
    /\ UNCHANGED <<staging, normalized, jobContent, queue, nRuns, cliOut, storeOut, overlapOut, libVars>>

(* _record_job_results raises (the job store's transaction fails and is
   rolled back).  After a normal return of run_pipeline the call is outside
   process_job's try block; after a PipelineExecutionError it is inside the
   handler.  Either way no handler catches it: the exception leaves
   process_job and no final status is written. *)
RecordUnexpected(w) ==
    /\ wk[w].pc = "record"
    /\ wk' = [wk EXCEPT ![w] = [IdleWorker EXCEPT !.pc = "raised", !.job = wk[w].job,
                                    !.run = wk[w].run, !.gateHit = wk[w].gateHit,
                                    !.exc = "unexpected", !.site = "record"]]
    /\ UNCHANGED <<staging, normalized, jobStatus, jobEvents, jobResult,
                   jobContent, queue, nRuns, cliOut, storeOut, overlapOut, resultRows, libVars>>

(* a final status that does not tell a duplicate from a load *)
FinalStatusPlainLoaded(st, j, exc, r) ==
    IF exc = "pipeline" \/ r.validation_errors > 0
    THEN MarkError(st, j, "pipeline failed")
    ELSE MarkLoaded(st, j, "null")

(* a final status that looks at the raised exception only *)
FinalStatusIgnoresValidation(st, j, exc, r) ==
    IF exc = "pipeline" THEN MarkError(st, j, "pipeline failed")
    ELSE IF r.skipped THEN MarkLoaded(st, j, "Duplicate upload detected")
    ELSE MarkLoaded(st, j, "null")

(* the final status process_job writes *)
FinalStatus(st, j, exc, r) ==
    IF exc = "pipeline"
    THEN MarkError(st, j, IF r.validation_errors > 0 THEN "validation errors"
                          ELSE "pipeline failed")
    ELSE IF r.validation_errors > 0 THEN MarkError(st, j, "validation errors")
    ELSE IF r.skipped THEN MarkLoaded(st, j, "Duplicate upload detected")
    ELSE MarkLoaded(st, j, "null")

Mark(w) ==
    /\ wk[w].pc = "mark"
    /\ Commit(FinalStatus(Store, wk[w].job, wk[w].exc, wk[w].result))
    /\ wk' = [wk EXCEPT ![w] = [wk[w] EXCEPT !.pc = IF wk[w].exc = "none" THEN "returned"
                                                ELSE "raised"]]
    /\ UNCHANGED <<staging, normalized, jobContent, queue, nRuns, cliOut, storeOut, overlapOut, libVars>>

(* the worker process dies: its open transaction is rolled back by the
   server, the job keeps its last written status *)
Crash(w) ==
    /\ wk[w].pc \notin Resting
    /\ wk' = [wk EXCEPT ![w] = [IdleWorker EXCEPT !.pc = "crashed"]]
    /\ UNCHANGED <<staging, normalized, jobStatus, jobEvents, jobResult,
                   jobContent, queue, nRuns, cliOut, storeOut, overlapOut, resultRows, libVars>>

-----------------------------------------------------------------------------

(* the job side: enqueueing, delivery, and process_job around run_pipeline *)
JobSteps(W) ==
    \/ \E c \in Contents, size \in Sizes, rows \in Sizes : CreateUploadJob(c, size, rows)
    \/ \E w \in W, j \in JobIds : Deliver(w, j)
    \/ \E w \in W : Record(w)
    \/ \E w \in W : Mark(w)

(* the steps of a started run_pipeline *)
RunSteps(W) ==
    \/ \E w \in W : Prep(w)
    \/ \E w \in W, infile \in BOOLEAN : LoaderBegin(w, infile)
    \/ \E w \in W, ok \in BOOLEAN : LoaderLoad(w, ok)
    \/ \E w \in W : LoaderCommit(w)
    \/ \E w \in W : Prepare(w)
    \/ \E w \in W : Validate(w)
    \/ \E w \in W, failAt \in {"none", "insert", "mark"} : NormWrite(w, failAt)
    \/ \E w \in W : NormCommit(w)
    \/ \E w \in W : Crash(w)

(* run_pipeline called directly *)
DirectSteps(W) ==
    \E w \in W, c \in Contents :
        \E i \in RunInputs(c) : DirectRun(w, c, i.ranges, i.policy)

(* the command line *)
CliSteps ==
    \E c \in Contents :
        \E i \in RunInputs(c) : Cli(c, i.ranges, i.policy)

(* jobs: the API enqueues, one worker serves the queue (redeliveries
   included), one run after another *)
Next == JobSteps({"w1"}) \/ RunSteps({"w1"})
Spec == Init /\ [][Next]_vars

(* jobs served while the job store can fail: the Parsing notification or
   the recording of the results raises *)
FaultSteps(W) ==
    \/ \E w \in W, j \in JobIds, written \in BOOLEAN : DeliverUnexpected(w, j, written)
    \/ \E w \in W : RecordUnexpected(w)

NextFault == JobSteps({"w1"}) \/ RunSteps({"w1"}) \/ FaultSteps({"w1"})
SpecFault == Init /\ [][NextFault]_vars

(* direct calls: run_pipeline with any ranges and policy, and the command
   line, one call after another *)
NextRun == DirectSteps({"w1"}) \/ CliSteps \/ RunSteps({"w1"})
SpecRun == Init /\ [][NextRun]_vars

(* jobs and direct calls together *)
NextAll == JobSteps({"w1"}) \/ DirectSteps({"w1"}) \/ CliSteps \/ RunSteps({"w1"})
SpecAll == Init /\ [][NextAll]_vars

(* direct calls of the job_store functions, for any job id, present or not *)
Statuses == {"Queued", "Parsing", "Validating", "Loaded", "Error"}

StoreCall(kind, j, st) ==
    /\ nRuns < MaxCalls
    /\ nRuns' = nRuns + 1
    /\ Commit(st)
    /\ storeOut' = [kind |-> kind, job |-> j, ok |-> st.ok]
    /\ UNCHANGED <<staging, normalized, jobContent, queue, wk, cliOut, overlapOut, libVars>>

StoreCreateJob(j) ==
    /\ j \in JobIds
    /\ StoreCall("create_job", j, CreateJob(Store, j, "Queued", "Queued for processing"))

StoreSetStatus(j, status, message) ==
    /\ j \in JobIds
    /\ StoreCall("set_status", j, SetStatus(Store, j, status, message))

StoreRecordResults(j, total, rejected) ==
    /\ JobExists(jobStatus, j)
    /\ StoreCall("record_results", j,
                 RecordResults(Store, j, total, total - rejected, rejected, TRUE))

StoreSaveRejectedRowsPath(j) ==
    /\ j \in JobIds
    /\ StoreCall("save_rejected_rows_path", j, SaveRejectedRowsPath(Store, j, TRUE))

NextStore ==
    \/ \E j \in JobIds : StoreCreateJob(j)
    \/ \E j \in JobIds, status \in Statuses, message \in {"null", "note"} :
          StoreSetStatus(j, status, message)
    \/ \E j \in JobIds, total \in {1, 2}, rejected \in {0, 1} :
          StoreRecordResults(j, total, rejected)
    \/ \E j \in JobIds : StoreSaveRejectedRowsPath(j)

SpecStore == Init /\ [][NextStore]_vars

(* two processes calling run_pipeline concurrently *)
(* check_time_overlap called directly, once, on every stored table of at most
   MaxStored records and every list of at most MaxRanges requested intervals *)
MaxStored == 2
MaxRanges == 1

Intervals == {iv \in Days \X Days : iv[1] <= iv[2]}

StoredRecord(iv) == [id |-> (iv[1] - 1) * MaxDay + iv[2], lo |-> iv[1], hi |-> iv[2]]

StoredTables ==
    {{StoredRecord(iv) : iv \in S} :
        S \in {T \in SUBSET Intervals : Cardinality(T) <= MaxStored}}

TimeRanges == UNION {[1..n -> Intervals] : n \in 0..MaxRanges}

TableNames == {<<>>, StoredTable, <<"n", "_">>, <<"n", ";">>}
ColumnNames == {<<>>, StoredColumn, <<"p", "-">>}

InitOverlap ==
    /\ staging = {}
    /\ normalized \in StoredTables
    /\ jobStatus = [j \in JobIds |-> "absent"]
    /\ jobEvents = [j \in JobIds |-> <<>>]
    /\ jobResult = [j \in JobIds |-> NoResult]
    /\ jobContent = [j \in JobIds |-> "a"]
    /\ queue = {}
    /\ wk = [w \in Workers |-> IdleWorker]
    /\ nRuns = 0
    /\ cliOut = [kind |-> "none", overlaps |-> {}]
    /\ storeOut = [kind |-> "none"]
    /\ overlapOut = NoOverlapCall
    /\ resultRows = [j \in JobIds |-> 0]
    /\ InitLib

OverlapCheck ==
    /\ overlapOut = NoOverlapCall
    /\ \E target_table \in TableNames, time_range_column \in ColumnNames,
          time_ranges \in TimeRanges :
          overlapOut' = CheckTimeOverlapCall(target_table, time_range_column,
                                             time_ranges, normalized)
    /\ UNCHANGED <<staging, normalized, jobStatus, jobEvents, jobResult,
                   jobContent, queue, wk, nRuns, cliOut, storeOut, resultRows, libVars>>

NextOverlap == OverlapCheck

SpecOverlap == InitOverlap /\ [][NextOverlap]_vars

NextRace == DirectSteps(Workers) \/ RunSteps(Workers)
SpecRace == Init /\ [][NextRace]_vars

(* two workers serving the queue: jobs run concurrently, each on its own
   connection *)
NextPool == JobSteps(Workers) \/ RunSteps(Workers)
SpecPool == Init /\ [][NextPool]_vars

-----------------------------------------------------------------------------
(* prep_excel: one configuration lookup on a sampled configuration table *)

InitConfig ==
    /\ InitPipeline
    /\ configRows \in ConfigTables
    /\ configCache = NoConfigCache
    /\ stagingColumns = [t \in StagingTables |-> NoStagingTable]
    /\ configOut = NoConfigCall
    /\ usedIdentifiers = {}
    /\ sanitizeCalls = <<>>
    /\ batchOut = NoBatchCall

ConfigLookup ==
    /\ configOut = NoConfigCall
    /\ \E sheet \in SheetNames, workbook_type \in WorkbookTypes, connection \in BOOLEAN :
          GetTableConfigCall(sheet, workbook_type, connection)

NextConfig == ConfigLookup

SpecConfig == InitConfig /\ [][NextConfig]_vars

-----------------------------------------------------------------------------
(* prep_excel and ingest_excel: the configuration cache across schema changes *)

(* rows an operator adds to the configuration table with an INSERT script *)
ScriptRows ==
    {[workbook_type |-> "", sheet_name |-> "S",
      staging_table |-> <<"a", "_raw">>, normalized_table |-> <<>>],
     [workbook_type |-> "", sheet_name |-> "S",
      staging_table |-> <<"b">>, normalized_table |-> <<"x">>],
     [workbook_type |-> "custom", sheet_name |-> "S",
      staging_table |-> <<"b">>, normalized_table |-> <<>>]}

(* business headers a workbook or a prepared CSV can carry *)
Headers == {"h"}

ApplyConfigSql ==
    /\ Len(configRows) < MaxScripts
    /\ \E row \in ScriptRows : configRows' = Append(configRows, row)
    /\ UNCHANGED <<pipelineVars, identVars, batchOut, configCache, stagingColumns, configOut>>

(* _ensure_staging_columns: create the table when it is missing, add the
   headers it lacks; reports whether a statement was executed *)
EnsureStagingColumns(columns, table_name, headers) ==
    [columns |-> [columns EXCEPT ![table_name] =
                     [exists |-> TRUE, columns |-> @.columns \cup headers]],
     schema_changed |-> \/ ~columns[table_name].exists
                        \/ ~(headers \subseteq columns[table_name].columns)]

(* prep_excel.main up to get_schema_details, called with the settings *)
PrepMain(sheet, workbook_type, headers) ==
    LET first == GetSheetConfig(configCache, configRows, FALSE)
        config == GetTableConfig(first.config, sheet, workbook_type)
        ensured == EnsureStagingColumns(stagingColumns, config.entry.table, headers)
        cleared == IF ensured.schema_changed THEN NoConfigCache ELSE first.cache
        second == GetSheetConfig(cleared, configRows, FALSE)
        schema == GetTableConfig(second.config, sheet, workbook_type)
    IN  IF config.raised # "none"
        THEN /\ configCache' = first.cache
             /\ configOut' = [kind |-> "prep_main", sheet |-> sheet,
                              workbook_type |-> workbook_type, ddl |-> FALSE,
                              loaded |-> first.loaded, raised |-> config.raised]
             /\ UNCHANGED <<pipelineVars, identVars, batchOut, configRows, stagingColumns>>
        ELSE /\ configCache' = second.cache
             /\ stagingColumns' = ensured.columns
             /\ configOut' = [kind |-> "prep_main", sheet |-> sheet,
                              workbook_type |-> workbook_type,
                              ddl |-> ensured.schema_changed,
                              loaded |-> second.loaded,
                              raised |-> IF schema.raised # "none" THEN schema.raised
                                         ELSE IF ~ensured.columns[schema.entry.table].exists
                                         THEN "Staging table is missing"
                                         ELSE "none"]
             /\ UNCHANGED <<pipelineVars, identVars, batchOut, configRows>>

(* the configuration lookups and the ADD COLUMN of the staging load
   (ingest_excel lines 127-173), called with the settings; the LOAD DATA that
   follows is the load step of the pipeline *)
LoadCsvIntoStaging(sheet, workbook_type, header) ==
    LET first == GetSheetConfig(configCache, configRows, FALSE)
        config == GetTableConfig(first.config, sheet, workbook_type)
        table_name == config.entry.table
        added == [stagingColumns EXCEPT ![table_name].columns = @ \cup header]
        reread == GetSheetConfig(first.cache, configRows, TRUE)
        schema == GetTableConfig(reread.config, sheet, "default")
    IN  IF config.raised # "none"
        THEN /\ configCache' = first.cache
             /\ configOut' = [kind |-> "load_csv", sheet |-> sheet,
                              workbook_type |-> workbook_type, ddl |-> FALSE,
                              loaded |-> first.loaded, raised |-> config.raised]
             /\ UNCHANGED <<pipelineVars, identVars, batchOut, configRows, stagingColumns>>
        ELSE IF ~stagingColumns[table_name].exists
        THEN /\ configCache' = first.cache
             /\ configOut' = [kind |-> "load_csv", sheet |-> sheet,
                              workbook_type |-> workbook_type, ddl |-> FALSE,
                              loaded |-> first.loaded,
                              raised |-> "Staging table is missing"]
             /\ UNCHANGED <<pipelineVars, identVars, batchOut, configRows, stagingColumns>>
        ELSE /\ configCache' = reread.cache
             /\ stagingColumns' = added
             /\ configOut' = [kind |-> "load_csv", sheet |-> sheet,
                              workbook_type |-> workbook_type,
                              ddl |-> ~(header \subseteq stagingColumns[table_name].columns),
                              loaded |-> reread.loaded,
                              raised |-> IF schema.raised # "none" THEN schema.raised
                                         ELSE IF ~added[schema.entry.table].exists
                                         THEN "Staging table is missing"
                                         ELSE "none"]
             /\ UNCHANGED <<pipelineVars, identVars, batchOut, configRows>>

NextCache ==
    \/ ApplyConfigSql
    \/ \E sheet \in SheetNames, workbook_type \in WorkbookTypes, connection \in BOOLEAN :
          GetTableConfigCall(sheet, workbook_type, connection)
    \/ \E sheet \in SheetNames, workbook_type \in WorkbookTypes, headers \in SUBSET Headers :
          PrepMain(sheet, workbook_type, headers)
    \/ \E sheet \in SheetNames, workbook_type \in WorkbookTypes, header \in SUBSET Headers :
          LoadCsvIntoStaging(sheet, workbook_type, header)

SpecCache == Init /\ [][NextCache]_vars

-----------------------------------------------------------------------------
(* identifiers: sanitize_identifier on a shared set of used identifiers *)

MaxSanitizeCalls == 2

MaxIdentifierLength == 64

(* Characters of a name, by what unicodedata.category says of them: "a" is a
   lower-case letter, "A" an upper-case letter, "1" a digit, "_" and "-"
   punctuation, " " a separator, "^" stands for a control character. The other
   characters below only occur in the default name and in suffixes. *)
Category(char) ==
    CASE char \in {"_", "-"} -> "P"
      [] char = " " -> "Z"
      [] char = "^" -> "C"
      [] char \in {"0", "1", "2", "3", "4", "5", "6", "7", "8", "9"} -> "N"
      [] OTHER -> "L"

Lower(char) == IF char = "A" THEN "a" ELSE char

IsDigit(char) == Category(char) = "N"

DefaultName == <<"c", "o", "l", "u", "m", "n">>

(* a position whose character is removed holds Dropped until it is filtered *)
Dropped == ""
IsKept(char) == char # Dropped

(* str.strip(chars): leading and trailing characters of the set removed *)
Strip(value, chars) ==
    LET inner == {i \in 1..Len(value) : value[i] \notin chars}
    IN  IF inner = {} THEN <<>>
        ELSE SubSeq(value, CHOOSE lo \in inner : \A i \in inner : lo <= i,
                           CHOOSE hi \in inner : \A i \in inner : i <= hi)

(* letters and digits are kept in lower case, separators, punctuation and
   symbols become "_", everything else is dropped *)
SanitizeChars(value) ==
    SelectSeq([i \in 1..Len(value) |->
                  IF Category(value[i]) \in {"L", "N"} THEN Lower(value[i])
                  ELSE IF Category(value[i]) \in {"Z", "P", "S"} THEN "_"
                  ELSE Dropped],
              IsKept)

(* _MULTIPLE_UNDERSCORES_RE.sub("_", value) *)
CollapseUnderscores(value) ==
    SelectSeq([i \in 1..Len(value) |->
                  IF value[i] = "_" /\ i > 1 /\ value[i - 1] = "_" THEN Dropped
                  ELSE value[i]],
              IsKept)

EndsWith(identifier, suffix) ==
    /\ Len(suffix) <= Len(identifier)
    /\ SubSeq(identifier, Len(identifier) - Len(suffix) + 1, Len(identifier)) = suffix

SuffixTooLong == <<"!">>

TruncateIdentifier(identifier, suffix) ==
    LET joined == IF suffix # <<>> /\ ~EndsWith(identifier, suffix)
                  THEN identifier \o suffix
                  ELSE identifier
    IN  IF Len(joined) <= MaxIdentifierLength THEN joined
        ELSE IF suffix # <<>> /\ Len(suffix) >= MaxIdentifierLength THEN SuffixTooLong
        ELSE IF suffix # <<>>
        THEN SubSeq(joined, 1, MaxIdentifierLength - Len(suffix)) \o suffix
        ELSE SubSeq(joined, 1, MaxIdentifierLength)

DigitChars == <<"0", "1", "2", "3", "4", "5", "6", "7", "8", "9">>

(* str(counter) *)
RECURSIVE Decimal(_)
Decimal(n) ==
    IF n < 10 THEN <<DigitChars[n + 1]>>
    ELSE Decimal(n \div 10) \o <<DigitChars[(n % 10) + 1]>>

(* the name before the uniqueness loop *)
SanitizedValue(name) ==
    LET cleaned == Strip(CollapseUnderscores(SanitizeChars(Strip(name, {" "}))), {"_"})
        value == IF cleaned = <<>> THEN DefaultName ELSE cleaned
        prefixed == IF IsDigit(value[1]) THEN <<"_">> \o value ELSE value
    IN  TruncateIdentifier(prefixed, <<>>)

(* a loop that tries the suffix _1 and nothing else *)
FindCandidateOnce(value, existing, candidate, counter) ==
    IF candidate \notin existing THEN candidate
    ELSE TruncateIdentifier(value, <<"_">> \o Decimal(counter))

(* while candidate in existing: next suffix *)
RECURSIVE FindCandidate(_, _, _, _)
FindCandidate(value, existing, candidate, counter) ==
    IF candidate \notin existing THEN candidate
    ELSE FindCandidate(value, existing,
                       TruncateIdentifier(value, <<"_">> \o Decimal(counter)),
                       counter + 1)

SanitizeIdentifier(name, existing) ==
    FindCandidate(SanitizedValue(name), existing, SanitizedValue(name), 1)

Repeat(char, n) == [i \in 1..n |-> char]

(* names passed by the callers *)
SampleNames ==
    {<<>>, <<"a">>, <<"A">>, <<"1">>, <<"^">>,
     <<"a", "_", "1">>, <<" ", "a", "-", "-", "1">>,
     Repeat("a", 64), Repeat("a", 66), Repeat("a", 62) \o <<"_", "1">>}

(* sets of identifiers already in use before the first call *)
SampleExisting ==
    {{}, {<<"a">>}, {<<"a">>, <<"a", "_", "1">>}, {Repeat("a", 64)}}

InitIdent ==
    /\ InitPipeline
    /\ configRows = <<>>
    /\ configCache = NoConfigCache
    /\ stagingColumns = [t \in StagingTables |-> NoStagingTable]
    /\ configOut = NoConfigCall
    /\ usedIdentifiers \in SampleExisting
    /\ sanitizeCalls = <<>>
    /\ batchOut = NoBatchCall

SanitizeCall ==
    /\ Len(sanitizeCalls) < MaxSanitizeCalls
    /\ \E name \in SampleNames :
          LET returned == SanitizeIdentifier(name, usedIdentifiers)
          IN  /\ usedIdentifiers' = usedIdentifiers \cup {returned}
              /\ sanitizeCalls' = Append(sanitizeCalls, [name |-> name, returned |-> returned])
    /\ UNCHANGED <<pipelineVars, configVars, batchOut>>

NextIdent == SanitizeCall

SpecIdent == InitIdent /\ [][NextIdent]_vars

-----------------------------------------------------------------------------
(* normalize_staging: column order, row tuples and the INSERT statement *)

MaxBatchRows == 2

(* None, and the values a coercion produces, are kept apart from the text
   they come from *)
Null == "NULL"

DefaultMetadataColumns ==
    <<"raw_id", "file_hash", "batch_id", "source_year", "ingested_at">>

DefaultReservedSourceColumns == {"id", "processed_at"}

(* an optional argument: None, or a sequence of names *)
NotGiven == [given |-> FALSE, value |-> <<>>]
Given(value) == [given |-> TRUE, value |-> value]

Elements(seq) == {seq[i] : i \in 1..Len(seq)}

(* str(value).strip() on the sampled names *)
StripText(text) ==
    CASE text = " raw_id" -> "raw_id"
      [] text = " " -> ""
      [] OTHER -> text

RECURSIVE DedupeFrom(_, _)
DedupeFrom(values, cleaned) ==
    IF values = <<>> THEN cleaned
    ELSE LET text == StripText(Head(values))
         IN  DedupeFrom(Tail(values),
                        IF text = "" \/ text \in Elements(cleaned)
                        THEN cleaned ELSE Append(cleaned, text))

DedupePreserve(values) == DedupeFrom(values, <<>>)

ResolveMetadataColumns(metadata_columns) ==
    IF ~metadata_columns.given THEN DefaultMetadataColumns
    ELSE LET cleaned == DedupePreserve(metadata_columns.value)
             Missing(default) == default \notin Elements(cleaned)
         IN  IF cleaned = <<>> THEN DefaultMetadataColumns
             ELSE cleaned \o SelectSeq(DefaultMetadataColumns, Missing)

ResolveReservedSourceColumns(reserved_source_columns) ==
    IF ~reserved_source_columns.given THEN DefaultReservedSourceColumns
    ELSE DefaultReservedSourceColumns
            \cup Elements(DedupePreserve(reserved_source_columns.value))

(* values of the staging columns as text; the coercers give None for
   anything they cannot read *)
CoerceDate(value) ==
    CASE value \in {"2024-05-01", "2024/05/01"} -> "date(2024-05-01)"
      [] OTHER -> Null

CoerceDecimal(value) ==
    CASE value = "1.5" -> "Decimal(1.5)"
      [] value = "1,500" -> "Decimal(1500)"
      [] value = "2024" -> "Decimal(2024)"
      [] OTHER -> Null

CoerceSourceYear(value) ==
    CASE value = "2024" -> "int(2024)"
      [] OTHER -> Null

CoerceIngestedAt(value) ==
    CASE value = "2024-05-01 10:00:00" -> "datetime(2024-05-01 10:00:00)"
      [] OTHER -> Null

(* a coercion that hands an unreadable value on as it is *)
CoerceBusinessValueLenient(column, value) ==
    CASE column = "date" /\ CoerceDate(value) # Null -> CoerceDate(value)
      [] column = "hours" /\ CoerceDecimal(value) # Null -> CoerceDecimal(value)
      [] OTHER -> IF value # "" THEN value ELSE Null

(* _COERCERS: the date column and the decimal column of the teaching record *)
CoerceBusinessValue(column, value) ==
    CASE column = "date" -> CoerceDate(value)
      [] column = "hours" -> CoerceDecimal(value)
      [] OTHER -> IF value # "" THEN value ELSE Null

(* row.get(column) *)
Get(row, column) == IF column \in DOMAIN row THEN row[column] ELSE Null

NormaliseMetadata(column, row) ==
    CASE column = "raw_id" -> Get(row, "id")
      [] column = "source_year" -> CoerceSourceYear(Get(row, column))
      [] column = "ingested_at" -> CoerceIngestedAt(Get(row, column))
      [] OTHER -> Get(row, column)

(* column mappings are ordered: a sequence of normalized column and source
   column, no normalized column twice *)
MappingColumns(column_mappings) ==
    [i \in 1..Len(column_mappings) |-> column_mappings[i].column]

MappingSources(column_mappings) ==
    {column_mappings[i].source : i \in 1..Len(column_mappings)}

(* column_mappings.get(column) *)
SourceOf(column_mappings, column) ==
    IF \E i \in 1..Len(column_mappings) : column_mappings[i].column = column
    THEN column_mappings[CHOOSE i \in 1..Len(column_mappings) :
                            column_mappings[i].column = column].source
    ELSE Null

(* the columns of a staging row, in the order of rows[0].keys() *)
StagingColumnOrder ==
    <<"id", "file_hash", "batch_id", "source_year", "ingested_at",
      "processed_at", "date", "hours", "t">>

(* a discovery that also maps a column an explicit entry already reads *)
RECURSIVE ExpandMappingsKeepingSources(_, _, _, _)
ExpandMappingsKeepingSources(columns, resolved, metadata_set, reserved) ==
    IF columns = <<>> THEN resolved
    ELSE LET column == Head(columns)
         IN  ExpandMappingsKeepingSources(Tail(columns),
                 IF \/ column \in reserved
                    \/ column \in metadata_set
                    \/ column \in Elements(MappingColumns(resolved))
                 THEN resolved
                 ELSE Append(resolved, [column |-> column, source |-> column]),
                 metadata_set, reserved)

RECURSIVE ExpandMappings(_, _, _, _)
ExpandMappings(columns, resolved, metadata_set, reserved) ==
    IF columns = <<>> THEN resolved
    ELSE LET column == Head(columns)
         IN  ExpandMappings(Tail(columns),
                 IF \/ column \in reserved
                    \/ column \in metadata_set
                    \/ column \in Elements(MappingColumns(resolved))
                    \/ column \in MappingSources(resolved)
                 THEN resolved
                 ELSE Append(resolved, [column |-> column, source |-> column]),
                 metadata_set, reserved)

ResolveColumnMappings(rows, column_mappings, metadata_columns, reserved_source_columns) ==
    IF rows = <<>> THEN column_mappings
    ELSE ExpandMappings(StagingColumnOrder, column_mappings,
                        Elements(ResolveMetadataColumns(metadata_columns)),
                        ResolveReservedSourceColumns(reserved_source_columns))

RECURSIVE AppendNew(_, _)
AppendNew(ordered, columns) ==
    IF columns = <<>> THEN ordered
    ELSE AppendNew(IF Head(columns) \in Elements(ordered) THEN ordered
                   ELSE Append(ordered, Head(columns)),
                   Tail(columns))

BuildOrderedColumns(column_mappings, metadata_columns) ==
    AppendNew(metadata_columns, MappingColumns(column_mappings))

(* a row tuple that lists the business values before the metadata *)
BuildRowBusinessFirst(row, column_mappings, metadata_columns) ==
    LET business == SelectSeq(MappingColumns(column_mappings),
                              LAMBDA column : column \notin Elements(metadata_columns))
        shuffled == business \o metadata_columns
    IN  [i \in 1..Len(shuffled) |->
            IF shuffled[i] \in Elements(metadata_columns)
            THEN NormaliseMetadata(shuffled[i], row)
            ELSE CoerceBusinessValue(shuffled[i],
                    IF SourceOf(column_mappings, shuffled[i]) \notin {Null, ""}
                    THEN Get(row, SourceOf(column_mappings, shuffled[i]))
                    ELSE Null)]

BuildRow(row, column_mappings, metadata_columns) ==
    LET ordered_columns == BuildOrderedColumns(column_mappings, metadata_columns)
    IN  [i \in 1..Len(ordered_columns) |->
            IF ordered_columns[i] \in Elements(metadata_columns)
            THEN NormaliseMetadata(ordered_columns[i], row)
            ELSE CoerceBusinessValue(ordered_columns[i],
                    IF SourceOf(column_mappings, ordered_columns[i]) \notin {Null, ""}
                    THEN Get(row, SourceOf(column_mappings, ordered_columns[i]))
                    ELSE Null)]

(* the column list and the number of placeholders of the statement text *)
BuildInsertStatement(column_mappings, metadata_columns) ==
    LET ordered_columns == BuildOrderedColumns(column_mappings,
                               ResolveMetadataColumns(metadata_columns))
    IN  [columns |-> ordered_columns, placeholders |-> Len(ordered_columns)]

PrepareRows(rows, column_mappings, metadata_columns) ==
    [i \in 1..Len(rows) |->
        BuildRow(rows[i], column_mappings, ResolveMetadataColumns(metadata_columns))]

(* insert_normalized_rows: what it hands to executemany *)
InsertNormalizedRows(rows, column_mappings, metadata_columns, reserved_source_columns) ==
    LET resolved_mappings == ResolveColumnMappings(rows, column_mappings,
                                 metadata_columns, reserved_source_columns)
        statement == BuildInsertStatement(resolved_mappings, metadata_columns)
        prepared == PrepareRows(rows, resolved_mappings, metadata_columns)
    IN  IF rows = <<>>
        THEN [executed |-> FALSE, returned |-> 0]
        ELSE [executed |-> TRUE, columns |-> statement.columns,
              placeholders |-> statement.placeholders, params |-> prepared,
              resolved_mappings |-> resolved_mappings, returned |-> Len(prepared)]

(* staging rows as the cursor returns them *)
SampleStagingRows ==
    {[id |-> "1", file_hash |-> "h", batch_id |-> "b", source_year |-> "2024",
      ingested_at |-> "2024-05-01 10:00:00", processed_at |-> Null,
      date |-> "2024/05/01", hours |-> "1.5", t |-> "x"],
     [id |-> "2", file_hash |-> "h", batch_id |-> "b", source_year |-> "bad",
      ingested_at |-> "", processed_at |-> Null,
      date |-> "", hours |-> "not-a-number", t |-> ""]}

StagingBatches == UNION {[1..n -> SampleStagingRows] : n \in 0..MaxBatchRows}

SampleMappings ==
    {<<>>,
     <<[column |-> "hours", source |-> "hours"], [column |-> "t", source |-> "t"]>>,
     <<[column |-> "note", source |-> "t"], [column |-> "file_hash", source |-> "t"]>>,
     <<[column |-> "date", source |-> "date"], [column |-> "gone", source |-> ""]>>}

SampleMetadataColumns ==
    {NotGiven, Given(<<>>), Given(<<"batch_id", " raw_id", "batch_id">>),
     Given(<<"t", " ">>)}

SampleReservedColumns == {NotGiven, Given(<<"hours">>)}

InsertCall ==
    /\ batchOut = NoBatchCall
    /\ \E rows \in StagingBatches, column_mappings \in SampleMappings,
          metadata_columns \in SampleMetadataColumns,
          reserved_source_columns \in SampleReservedColumns :
          batchOut' = [kind |-> "insert_normalized_rows", rows |-> rows,
                       column_mappings |-> column_mappings,
                       metadata_columns |-> metadata_columns,
                       reserved_source_columns |-> reserved_source_columns,
                       out |-> InsertNormalizedRows(rows, column_mappings,
                                   metadata_columns, reserved_source_columns)]
    /\ UNCHANGED <<pipelineVars, configVars, identVars>>

NextInsert == InsertCall

SpecInsert == Init /\ [][NextInsert]_vars

(* resolve_column_mappings called on its own *)
SampleResolveMappings ==
    SampleMappings \cup {<<[column |-> "hours", source |-> "t"]>>}

ResolveCall ==
    /\ batchOut = NoBatchCall
    /\ \E rows \in StagingBatches, column_mappings \in SampleResolveMappings,
          metadata_columns \in SampleMetadataColumns,
          reserved_source_columns \in SampleReservedColumns :
          batchOut' = [kind |-> "resolve_column_mappings", rows |-> rows,
                       column_mappings |-> column_mappings,
                       metadata_columns |-> metadata_columns,
                       reserved_source_columns |-> reserved_source_columns,
                       out |-> ResolveColumnMappings(rows, column_mappings,
                                   metadata_columns, reserved_source_columns)]
    /\ UNCHANGED <<pipelineVars, configVars, identVars>>

NextResolve == ResolveCall

SpecResolve == Init /\ [][NextResolve]_vars

-----------------------------------------------------------------------------
(* validation: validate_rows on prepared rows *)

(* row checks, as the callables passed in checks: each returns an error text
   or nothing *)
ColumnIndex(columns, name) == CHOOSE i \in 1..Len(columns) : columns[i] = name

CheckError(check, row, columns) ==
    CASE check = "require_name" ->
             IF row[ColumnIndex(columns, "name")] = Null THEN "name missing" ELSE Null
      [] check = "name_not_bad" ->
             IF row[ColumnIndex(columns, "name")] = "bad" THEN "name is bad" ELSE Null
      [] check = "id_is_one" ->
             IF row[ColumnIndex(columns, "id")] # "1" THEN "id is not 1" ELSE Null
      [] check = "raw_id_is_one" ->
             IF row[ColumnIndex(columns, "raw_id")] # "1" THEN "raw_id is not 1" ELSE Null
      [] check = "year_present" ->
             IF row[ColumnIndex(columns, "source_year")] = Null
             THEN "source_year missing" ELSE Null
      [] OTHER -> ""

(* the errors of the checks that returned a non-empty text, in check order *)
RowErrors(row, checks, columns) ==
    SelectSeq([i \in 1..Len(checks) |-> CheckError(checks[i], row, columns)],
              LAMBDA error : error \notin {Null, ""})

RowsToDict(ordered_columns, row_values) ==
    [column \in Elements(ordered_columns) |->
        row_values[CHOOSE idx \in 1..Len(ordered_columns) :
                      /\ ordered_columns[idx] = column
                      /\ \A later \in 1..Len(ordered_columns) :
                             ordered_columns[later] = column => later <= idx]]

RejectedRowOf(data, errors) == [data |-> data, errors |-> errors]

(* a loop that rejects failing rows and still keeps them as valid *)
RECURSIVE ValidateLoopKeepingAll(_, _, _, _)
ValidateLoopKeepingAll(rows, checks, ordered_columns, acc) ==
    IF rows = <<>> THEN acc
    ELSE LET row == Head(rows)
             row_errors == RowErrors(row, checks, ordered_columns)
         IN  ValidateLoopKeepingAll(Tail(rows), checks, ordered_columns,
                 [combined_rejections |->
                      IF row_errors # <<>>
                      THEN Append(acc.combined_rejections,
                               RejectedRowOf(RowsToDict(ordered_columns, row), row_errors))
                      ELSE acc.combined_rejections,
                  valid_rows |-> Append(acc.valid_rows, row)])

RECURSIVE ValidateLoop(_, _, _, _)
ValidateLoop(rows, checks, ordered_columns, acc) ==
    IF rows = <<>> THEN acc
    ELSE LET row == Head(rows)
             row_errors == RowErrors(row, checks, ordered_columns)
         IN  ValidateLoop(Tail(rows), checks, ordered_columns,
                 IF row_errors # <<>>
                 THEN [acc EXCEPT !.combined_rejections =
                          Append(@, RejectedRowOf(RowsToDict(ordered_columns, row),
                                                  row_errors))]
                 ELSE [acc EXCEPT !.valid_rows = Append(@, row)])

RECURSIVE FlattenErrors(_)
FlattenErrors(rejections) ==
    IF rejections = <<>> THEN <<>>
    ELSE Head(rejections).errors \o FlattenErrors(Tail(rejections))

(* the file the rejected rows are written to *)
WriteRejectedRows(job_id) == <<"uploads/rejected", job_id, ".csv">>

(* the files _write_rejected_rows leaves on disk: none for an empty list,
   else one file with a record per rejection *)
RejectedRowsFiles(job_id, rejected_rows) ==
    IF rejected_rows = <<>> THEN {}
    ELSE {[path |-> WriteRejectedRows(job_id), records |-> Len(rejected_rows)]}

(* a validate_rows that writes the artifact whenever rows were rejected *)
ValidateRowsOfAlwaysWriting(job_id, prepared, checks) ==
    LET done == ValidateLoop(prepared.normalized_rows, checks,
                             prepared.ordered_columns,
                             [combined_rejections |-> prepared.rejected_rows,
                              valid_rows |-> <<>>])
        writes == done.combined_rejections # <<>>
    IN  [prepared |-> [prepared EXCEPT
                          !.normalized_rows = done.valid_rows,
                          !.rejected_rows = done.combined_rejections],
         rejected_rows_path |->
             IF writes THEN WriteRejectedRows(job_id) ELSE <<>>,
         files |->
             IF writes THEN RejectedRowsFiles(job_id, done.combined_rejections)
             ELSE {},
         errors |-> FlattenErrors(done.combined_rejections)]

ValidateRowsOf(job_id, prepared, checks) ==
    LET done == ValidateLoop(prepared.normalized_rows, checks,
                             prepared.ordered_columns,
                             [combined_rejections |-> prepared.rejected_rows,
                              valid_rows |-> <<>>])
        writes == job_id \notin {Null, ""} /\ done.combined_rejections # <<>>
    IN  [prepared |-> [prepared EXCEPT
                          !.normalized_rows = done.valid_rows,
                          !.rejected_rows = done.combined_rejections],
         rejected_rows_path |->
             IF writes THEN WriteRejectedRows(job_id) ELSE <<>>,
         files |->
             IF writes THEN RejectedRowsFiles(job_id, done.combined_rejections)
             ELSE {},
         errors |-> FlattenErrors(done.combined_rejections)]

SamplePreparedRows == {<<"1", "Alice">>, <<"2", Null>>, <<"3", "bad">>}

PreparedBatches == UNION {[1..n -> SamplePreparedRows] : n \in 0..MaxBatchRows}

SamplePriorRejections ==
    {<<>>,
     <<RejectedRowOf([id |-> "3", name |-> "bad"], <<"existing error">>)>>,
     <<RejectedRowOf([id |-> "4", name |-> Null], <<"first", "second">>),
       RejectedRowOf([id |-> "3", name |-> "bad"], <<"existing error">>)>>}

(* checks = None is an empty list *)
SampleChecks ==
    {<<>>, <<"require_name">>, <<"name_not_bad", "id_is_one">>, <<"always_blank">>}

SampleJobIds == {"job-123", "", Null}

PreparedOf(rows, rejections) ==
    [normalized_rows |-> rows, rejected_rows |-> rejections,
     resolved_mappings |-> <<[column |-> "name", source |-> "source_name"]>>,
     metadata_columns |-> <<"id">>, ordered_columns |-> <<"id", "name">>]

ValidateCall ==
    /\ batchOut = NoBatchCall
    /\ \E job_id \in SampleJobIds, rows \in PreparedBatches,
          rejections \in SamplePriorRejections, checks \in SampleChecks :
          batchOut' = [kind |-> "validate_rows", job_id |-> job_id,
                       prepared |-> PreparedOf(rows, rejections),
                       checks |-> checks,
                       out |-> ValidateRowsOf(job_id, PreparedOf(rows, rejections),
                                              checks)]
    /\ UNCHANGED <<pipelineVars, configVars, identVars>>

NextValidate == ValidateCall

SpecValidate == Init /\ [][NextValidate]_vars

-----------------------------------------------------------------------------
(* normalize_staging.prepare_normalization followed by validate_rows, as the
   pipeline calls them on the fetched staging rows *)

(* the message of a coercion rejection names the column *)
CoercionError(column) ==
    CASE column = "date" -> "date: value could not be coerced"
      [] column = "hours" -> "hours: value could not be coerced"
      [] OTHER -> "value could not be coerced"

(* the business columns of a row whose value is present and comes back from
   its coercion as None, in column order *)
CoercionErrors(row, resolved_mappings, metadata_columns) ==
    LET business == SelectSeq(
            BuildOrderedColumns(resolved_mappings, metadata_columns),
            LAMBDA column :
                /\ column \notin Elements(metadata_columns)
                /\ SourceOf(resolved_mappings, column) \notin {Null, ""}
                /\ Get(row, SourceOf(resolved_mappings, column)) \notin {Null, ""}
                /\ CoerceBusinessValue(column,
                       Get(row, SourceOf(resolved_mappings, column))) = Null)
    IN  [i \in 1..Len(business) |-> CoercionError(business[i])]

RECURSIVE PrepareLoop(_, _, _, _)
PrepareLoop(rows, resolved_mappings, metadata_columns, acc) ==
    IF rows = <<>> THEN acc
    ELSE LET row == Head(rows)
             errors == CoercionErrors(row, resolved_mappings, metadata_columns)
         IN  PrepareLoop(Tail(rows), resolved_mappings, metadata_columns,
                 IF errors # <<>>
                 THEN [acc EXCEPT !.rejected_rows =
                          Append(@, RejectedRowOf(row, errors))]
                 ELSE [acc EXCEPT !.normalized_rows =
                          Append(@, BuildRow(row, resolved_mappings, metadata_columns))])

PrepareNormalizationOf(rows, column_mappings, metadata_columns, reserved_source_columns) ==
    LET resolved_mappings == ResolveColumnMappings(rows, column_mappings,
                                 metadata_columns, reserved_source_columns)
        metadata == ResolveMetadataColumns(metadata_columns)
    IN  PrepareLoop(rows, resolved_mappings, metadata,
            [normalized_rows |-> <<>>, rejected_rows |-> <<>>,
             resolved_mappings |-> resolved_mappings,
             metadata_columns |-> metadata,
             ordered_columns |-> BuildOrderedColumns(resolved_mappings, metadata)])

SampleBatchRows ==
    SampleStagingRows \cup
    {[id |-> "3", file_hash |-> "h", batch_id |-> "b", source_year |-> "",
      ingested_at |-> "2024-05-01 10:00:00", processed_at |-> Null,
      date |-> "2024-05-01", hours |-> "1,500", t |-> "y"]}

FetchedBatches == UNION {[1..n -> SampleBatchRows] : n \in 0..MaxBatchRows}

SampleBatchChecks == {<<>>, <<"raw_id_is_one">>, <<"year_present", "raw_id_is_one">>}

PrepareAndValidateCall ==
    /\ batchOut = NoBatchCall
    /\ \E rows \in FetchedBatches, column_mappings \in SampleMappings,
          metadata_columns \in SampleMetadataColumns,
          reserved_source_columns \in SampleReservedColumns,
          checks \in SampleBatchChecks :
          LET prepared == PrepareNormalizationOf(rows, column_mappings,
                              metadata_columns, reserved_source_columns)
          IN  batchOut' = [kind |-> "prepare_and_validate", rows |-> rows,
                           column_mappings |-> column_mappings,
                           metadata_columns |-> metadata_columns,
                           reserved_source_columns |-> reserved_source_columns,
                           checks |-> checks,
                           prepared |-> prepared,
                           out |-> ValidateRowsOf("job-123", prepared, checks)]
    /\ UNCHANGED <<pipelineVars, configVars, identVars>>

NextBatch == PrepareAndValidateCall

SpecBatch == Init /\ [][NextBatch]_vars

-----------------------------------------------------------------------------
(* ingest_excel: the loader's transaction, statement by statement *)

MaxAffected == 2

(* what cursor.rowcount holds after LOAD DATA (-1: the driver reports no
   count) and the row SELECT ROW_COUNT() returns (<<>>: no row) *)
DriverCounts == -1..MaxAffected
CountQueryResults == {<<>>} \cup {<<n>> : n \in 0..MaxAffected}

(* outcomes of SELECT @@local_infile: the value 1 or 0, an OperationalError
   with code OPTION_PREVENTS_STATEMENT, or any other error of the driver *)
LocalInfileResults == {"enabled", "disabled", "option_prevents", "operational_error"}

(* int(_extract_scalar(result) or 0) *)
CountOf(result) == IF result = <<>> THEN 0 ELSE result[1]

(* a loader that takes the driver's count as it is *)
LoaderTransactionNoCountQuery(local_infile, hash_exists, load_ok, driver_count, count_query) ==
    LET ended(statements, error) ==
            [statements |-> statements \o <<IF error = "none" THEN "commit" ELSE "rollback">>,
             committed |-> error = "none", error |-> error]
        checked == <<"begin", "select_local_infile">>
    IN  IF local_infile = "operational_error" THEN ended(checked, "operational_error")
        ELSE IF local_infile # "enabled" THEN ended(checked, "local_infile_disabled")
        ELSE IF hash_exists
        THEN ended(checked \o <<"select_file_hash">>, "duplicate")
        ELSE IF ~load_ok
        THEN ended(checked \o <<"select_file_hash", "load_data">>, "load_error")
        ELSE IF driver_count = 0
        THEN ended(checked \o <<"select_file_hash", "load_data">>, "empty_load")
        ELSE ended(checked \o <<"select_file_hash", "load_data">>, "none")

(* load_csv_into_staging from connection.begin() to the end of its try
   statement: the statements it sends, whether it committed, and the error
   it raised *)
LoaderTransaction(local_infile, hash_exists, load_ok, driver_count, count_query) ==
    LET ended(statements, error) ==
            [statements |-> statements \o <<IF error = "none" THEN "commit" ELSE "rollback">>,
             committed |-> error = "none", error |-> error]
        checked == <<"begin", "select_local_infile">>
        loaded == checked \o <<"select_file_hash", "load_data">>
        counted == IF driver_count = -1 THEN loaded \o <<"select_row_count">> ELSE loaded
        rowcount == IF driver_count = -1 THEN CountOf(count_query) ELSE driver_count
    IN  IF local_infile = "operational_error" THEN ended(checked, "operational_error")
        ELSE IF local_infile # "enabled" THEN ended(checked, "local_infile_disabled")
        ELSE IF hash_exists
        THEN ended(checked \o <<"select_file_hash">>, "duplicate")
        ELSE IF ~load_ok THEN ended(loaded, "load_error")
        ELSE IF rowcount = 0 THEN ended(counted, "empty_load")
        ELSE ended(counted, "none")

LoaderCall ==
    /\ batchOut = NoBatchCall
    /\ \E local_infile \in LocalInfileResults, hash_exists \in BOOLEAN,
          load_ok \in BOOLEAN, driver_count \in DriverCounts,
          count_query \in CountQueryResults :
          batchOut' = [kind |-> "load_csv_into_staging",
                       local_infile |-> local_infile, hash_exists |-> hash_exists,
                       load_ok |-> load_ok, driver_count |-> driver_count,
                       count_query |-> count_query,
                       out |-> LoaderTransaction(local_infile, hash_exists, load_ok,
                                                 driver_count, count_query)]
    /\ UNCHANGED <<pipelineVars, configVars, identVars>>

NextLoader == LoaderCall

SpecLoader == Init /\ [][NextLoader]_vars

-----------------------------------------------------------------------------
(* prep_excel._ensure_staging_columns against a staging table *)

(* A column type is written as a sequence of words and runs of whitespace
   (Blank), each word in the case it was written in. *)
Blank == " "

Spaced(words) ==
    [i \in 1..(2 * Len(words) - 1) |->
        IF i % 2 = 1 THEN words[(i + 1) \div 2] ELSE Blank]

(* str.upper and str.lower on the words of the sample types *)
UpperWord(word) ==
    CASE word \in {"text", "Text"} -> "TEXT"
      [] word = "null" -> "NULL"
      [] word = "not" -> "NOT"
      [] word = "default" -> "DEFAULT"
      [] word = "date" -> "DATE"
      [] word = "varchar(255)" -> "VARCHAR(255)"
      [] word = "char(64)" -> "CHAR(64)"
      [] word = "char(36)" -> "CHAR(36)"
      [] word = "int" -> "INT"
      [] word = "datetime" -> "DATETIME"
      [] word = "bigint" -> "BIGINT"
      [] word = "unsigned" -> "UNSIGNED"
      [] OTHER -> word

LowerWord(word) ==
    CASE word \in {"TEXT", "Text"} -> "text"
      [] word = "NULL" -> "null"
      [] word = "NOT" -> "not"
      [] word = "DEFAULT" -> "default"
      [] word = "DATE" -> "date"
      [] word = "VARCHAR(255)" -> "varchar(255)"
      [] word = "CHAR(64)" -> "char(64)"
      [] word = "CHAR(36)" -> "char(36)"
      [] word = "INT" -> "int"
      [] word = "DATETIME" -> "datetime"
      [] word = "BIGINT" -> "bigint"
      [] word = "UNSIGNED" -> "unsigned"
      [] OTHER -> word

(* str.split: the words without the whitespace between and around them *)
SplitWords(text) == SelectSeq(text, LAMBDA token : token # Blank)

(* str.strip: the text without its leading and trailing whitespace *)
StripType(text) ==
    LET inked == {i \in 1..Len(text) : text[i] # Blank}
    IN  IF inked = {} THEN <<>>
        ELSE SubSeq(text, CHOOSE i \in inked : \A j \in inked : i <= j,
                          CHOOSE i \in inked : \A j \in inked : i >= j)

NullWords == <<"NULL">>
NotNullWords == <<"NOT", "NULL">>

(* " NULL" occurs in the joined text: the word NULL after another word
   (" NOT NULL" holds " NULL" too) *)
HasNullability(words) == \E i \in 2..Len(words) : words[i] = "NULL"

(* _normalise_sql_type; the result joined by single spaces is written as the
   sequence of its words *)
NormaliseSqlType(type_text, default_nullability) ==
    LET split == SplitWords(type_text)
        text == [i \in 1..Len(split) |-> UpperWord(split[i])]
    IN  IF text = <<>> THEN text
        ELSE IF default_nullability # <<>> /\ ~HasNullability(text)
        THEN text \o default_nullability
        ELSE text

(* _default_metadata_column_definitions, in its order *)
DefaultMetadataColumnNames ==
    <<"id", "file_hash", "batch_id", "source_year", "ingested_at", "processed_at">>

DefaultMetadataColumnDefinition(name) ==
    CASE name = "id" ->
             Spaced(<<"BIGINT", "UNSIGNED", "NOT", "NULL", "AUTO_INCREMENT", "PRIMARY", "KEY">>)
      [] name = "file_hash" -> Spaced(<<"CHAR(64)", "NOT", "NULL">>)
      [] name = "batch_id" -> Spaced(<<"CHAR(36)", "NULL">>)
      [] name = "source_year" -> Spaced(<<"INT", "NULL">>)
      [] name = "ingested_at" -> Spaced(<<"DATETIME", "NOT", "NULL">>)
      [] name = "processed_at" -> Spaced(<<"DATETIME", "NULL", "DEFAULT", "NULL">>)
      [] OTHER -> Spaced(<<"VARCHAR(255)", "NULL">>)

(* a configured override: none, or the stripped text; an empty one counts
   as none *)
OverrideOf(column_types, name) ==
    IF name \in DOMAIN column_types THEN StripType(column_types[name]) ELSE <<>>

ResolveColumnType(name, column_types) ==
    IF OverrideOf(column_types, name) # <<>> THEN OverrideOf(column_types, name)
    ELSE DefaultMetadataColumnDefinition(name)

(* The database. What information_schema.COLUMNS reports for a column
   defined as `definition`: COLUMN_TYPE is the type without its nullability
   and DEFAULT clauses, in lower case; IS_NULLABLE and COLUMN_DEFAULT hold
   the clauses (the three fields _fetch_table_columns reads). *)
ClauseWords == {"NULL", "NOT", "DEFAULT", "AUTO_INCREMENT", "PRIMARY", "KEY"}

ColumnOf(name, definition) ==
    LET split == SplitWords(definition)
        words == [i \in 1..Len(split) |-> UpperWord(split[i])]
        clauses == {i \in 1..Len(words) : words[i] \in ClauseWords}
        base == IF clauses = {} THEN words
                ELSE SubSeq(words, 1, (CHOOSE i \in clauses : \A j \in clauses : i <= j) - 1)
    IN  [name |-> name,
         type |-> [i \in 1..Len(base) |-> LowerWord(base[i])],
         is_nullable |-> ~\E i \in 1..(Len(words) - 1) :
                             words[i] = "NOT" /\ words[i + 1] = "NULL",
         default |-> IF \E i \in 1..(Len(words) - 1) :
                            words[i] = "DEFAULT" /\ words[i + 1] # "NULL"
                     THEN "value" ELSE "none"]

NoTable == [exists |-> FALSE, columns |-> {}]

NamesOf(table) == {column.name : column \in table.columns}

ColumnNamed(table, name) == CHOOSE column \in table.columns : column.name = name

(* one DDL statement executed by the database *)
ExecuteStatement(table, statement) ==
    CASE statement.op = "create" ->
             [exists |-> TRUE,
              columns |-> {ColumnOf(statement.columns[i][1], statement.columns[i][2]) :
                              i \in 1..Len(statement.columns)}]
      [] statement.op = "add" ->
             [table EXCEPT !.columns = @ \cup {ColumnOf(statement.column, statement.type)}]
      [] OTHER ->
             [table EXCEPT !.columns =
                 {column \in @ : column.name # statement.column}
                     \cup {ColumnOf(statement.column, statement.type)}]

RECURSIVE ExecuteAll(_, _)
ExecuteAll(table, statements) ==
    IF statements = <<>> THEN table
    ELSE ExecuteAll(ExecuteStatement(table, Head(statements)), Tail(statements))

(* _build_create_table_statement: the configured metadata columns in the
   default order (all the defaults when none is configured), the required
   columns, the columns with an override; id when there is none *)
BuildCreateTableStatement(metadata_columns, required_columns, column_types) ==
    LET ordered_metadata ==
            IF metadata_columns # {}
            THEN SelectSeq(DefaultMetadataColumnNames, LAMBDA name : name \in metadata_columns)
            ELSE DefaultMetadataColumnNames
        overridden == SelectSeq(<<"date", "hours">>, LAMBDA name : name \in DOMAIN column_types)
        names == AppendNew(AppendNew(ordered_metadata, required_columns), overridden)
        created == IF names = <<>> THEN <<"id">> ELSE names
    IN  [op |-> "create",
         columns |-> [i \in 1..Len(created) |->
                         <<created[i], ResolveColumnType(created[i], column_types)>>]]

(* the loop over the headers (lines 601-634): what to add and what to
   modify, in header order *)
MissingHeaders(table, config, headers) ==
    LET wanted == SelectSeq(AppendNew(<<>>, headers),
                            LAMBDA header : /\ header # ""
                                            /\ header \notin config.metadata_columns
                                            /\ header \notin NamesOf(table))
    IN  [i \in 1..Len(wanted) |->
            [op |-> "add", column |-> wanted[i],
             type |-> IF OverrideOf(config.column_types, wanted[i]) # <<>>
                      THEN OverrideOf(config.column_types, wanted[i])
                      ELSE Spaced(<<"VARCHAR(255)", "NULL">>)]]

ModifiedHeaders(table, config, headers) ==
    LET Differs(header) ==
            LET existing == ColumnNamed(table, header)
                actual == NormaliseSqlType(existing.type,
                                           IF existing.is_nullable THEN NullWords
                                           ELSE NotNullWords)
                desired == NormaliseSqlType(OverrideOf(config.column_types, header),
                                            NullWords)
            IN  actual # desired
        changed == SelectSeq(AppendNew(<<>>, headers),
                             LAMBDA header : /\ header # ""
                                             /\ header \notin config.metadata_columns
                                             /\ header \in NamesOf(table)
                                             /\ OverrideOf(config.column_types, header) # <<>>
                                             /\ Differs(header))
    IN  [i \in 1..Len(changed) |->
            [op |-> "modify", column |-> changed[i],
             type |-> OverrideOf(config.column_types, changed[i])]]

(* _ensure_staging_columns: the statements it executes, the table they
   leave, and what it returns *)
EnsureStagingColumnsOf(table, config, headers) ==
    LET create == IF table.exists THEN <<>>
                  ELSE <<BuildCreateTableStatement(config.metadata_columns,
                                                   config.required_column_order,
                                                   config.column_types)>>
        columns == ExecuteAll(table, create)
        metadata_targets == IF config.metadata_columns # {} THEN config.metadata_columns
                            ELSE Elements(DefaultMetadataColumnNames)
        lacking == SelectSeq(DefaultMetadataColumnNames,
                             LAMBDA name : /\ name \in metadata_targets
                                           /\ name \notin NamesOf(columns))
        missing_columns ==
            [i \in 1..Len(lacking) |->
                [op |-> "add", column |-> lacking[i],
                 type |-> ResolveColumnType(lacking[i], config.column_types)]]
            \o MissingHeaders(columns, config, headers)
        modify_columns == ModifiedHeaders(columns, config, headers)
        statements == create \o missing_columns \o modify_columns
    IN  [table |-> ExecuteAll(table, statements),
         statements |-> statements,
         schema_changed |-> create # <<>> \/ missing_columns # <<>> \/ modify_columns # <<>>]

(* sample inputs *)
SampleOverrides ==
    {Spaced(<<"TEXT", "NULL">>),
     <<"text">>,
     <<Blank, "Text", Blank, Blank, "null", Blank>>,
     Spaced(<<"TEXT", "NOT", "NULL">>),
     Spaced(<<"VARCHAR(255)", "NULL", "DEFAULT", "'-'">>),
     <<Blank>>}

SampleColumnTypes ==
    {<<>>} \cup {[name \in {"hours"} |-> override] : override \in SampleOverrides}

SampleSchemaConfigs ==
    {[table |-> "teach_record_raw", metadata_columns |-> metadata_columns,
      column_types |-> column_types, required_column_order |-> required]
        : metadata_columns \in {{}, {"file_hash", "batch_id"}},
          column_types \in SampleColumnTypes,
          required \in {<<>>, <<"date">>}}

SampleHeaders == {<<"date">>, <<"date", "hours">>, <<"hours", "", "hours">>}

MetadataTable ==
    [exists |-> TRUE,
     columns |-> {ColumnOf(name, DefaultMetadataColumnDefinition(name)) :
                     name \in Elements(DefaultMetadataColumnNames)}]

SampleTables ==
    {NoTable,
     [exists |-> TRUE, columns |-> {ColumnOf("id", DefaultMetadataColumnDefinition("id"))}],
     MetadataTable}
    \cup {[MetadataTable EXCEPT !.columns = @ \cup {ColumnOf("hours", definition)}]
             : definition \in {<<"text">>, Spaced(<<"text", "NOT", "NULL">>),
                               <<"varchar(255)">>}}
    \cup {[MetadataTable EXCEPT !.columns =
               @ \cup {ColumnOf("date", <<"date">>), ColumnOf("hours", <<"text">>)}]}

(* a first call on a sampled table, and calls after it on the table it left *)
EnsureFirstCall ==
    /\ batchOut = NoBatchCall
    /\ \E table \in SampleTables, config \in SampleSchemaConfigs, headers \in SampleHeaders :
          batchOut' = [kind |-> "ensure_staging_columns",
                       config |-> config, headers |-> headers, before |-> table,
                       calls |-> <<EnsureStagingColumnsOf(table, config, headers)>>]
    /\ UNCHANGED <<pipelineVars, configVars, identVars>>

EnsureNextCall ==
    /\ batchOut.kind = "ensure_staging_columns"
    /\ Len(batchOut.calls) < MaxCalls
    /\ batchOut' = [batchOut EXCEPT !.calls =
           Append(@, EnsureStagingColumnsOf(batchOut.calls[Len(batchOut.calls)].table,
                                            batchOut.config, batchOut.headers))]
    /\ UNCHANGED <<pipelineVars, configVars, identVars>>

NextSchema == EnsureFirstCall \/ EnsureNextCall

SpecSchema == Init /\ [][NextSchema]_vars

-----------------------------------------------------------------------------
(* Properties *)

(* worker w takes this step *)
Moves(w) == wk'[w] # wk[w]

(* the staging loads of one content hash *)
LoadsOf(rows, h) == {r \in rows : r.hash = h}

Last(seq) == seq[Len(seq)]

IsPrefix(s, t) == Len(s) <= Len(t) /\ SubSeq(t, 1, Len(s)) = s

(* run_pipeline ended by raising *)
Failed(l) == l.pc \in {"raised", "record", "mark"} /\ l.exc = "pipeline"

(* position of a status on Queued -> Parsing -> Validating -> {Loaded | Error} *)
Rank(status) ==
    CASE status = "absent" -> 0
      [] status = "Queued" -> 1
      [] status = "Parsing" -> 2
      [] status = "Validating" -> 3
      [] OTHER -> 4

(* C1: once a run has committed the staging load of some content, a later
   run_pipeline on the same content is stopped by the gate: it returns
   skipped = true with staged_rows = 0 and normalized_rows = 0, leaves the
   staging and normalized tables as they are, and the staging table never
   holds more than one load of the content. *)
C1Step ==
    /\ \A h \in Contents : Cardinality(LoadsOf(staging', h)) <= 1
    /\ \A w \in Workers :
          (/\ wk[w].pc = "prep"
           /\ Moves(w)
           /\ wk'[w].pc # "crashed"
           /\ StagingFileHashExists(staging, wk[w].content))
          => /\ wk'[w].gateHit
             /\ wk'[w].pc \in {"returned", "record"}
             /\ wk'[w].exc = "none"
             /\ wk'[w].result.skipped
             /\ wk'[w].result.staged_rows = 0
             /\ wk'[w].result.normalized_rows = 0
             /\ staging' = staging
             /\ normalized' = normalized

C1_SecondRunSkipped == [][C1Step]_vars

C1_Witness ==
    \E w \in Workers :
        /\ wk[w].pc = "returned"
        /\ wk[w].job = NoJob
        /\ wk[w].gateHit
        /\ wk[w].result.skipped
        /\ Cardinality(LoadsOf(staging, wk[w].hash)) = 1
        /\ \E r \in normalized : r.hash = wk[w].hash

(* C2: the staging table never holds rows of two separate loads of the same
   file_hash, whatever the interleaving of two concurrent loaders. *)
C2_AtMostOneLoadPerHash ==
    \A h \in Contents : Cardinality(LoadsOf(staging, h)) <= 1

(* C3: a job's persisted status never moves from a later state of
   Queued -> Parsing -> Validating -> {Loaded | Error} to an earlier one. *)
C3_NoBackwardTransition ==
    [][\A j \in JobIds : Rank(jobStatus'[j]) >= Rank(jobStatus[j])]_vars

(* C4: when the gate finds the hash in the staging table, the run writes
   neither staging nor normalized rows, run_pipeline returns skipped = true
   with staged_rows, normalized_rows and rejected_rows all zero, and
   process_job ends the job Loaded with the duplicate message. *)
C4Step ==
    \A w \in Workers :
        /\ (wk[w].pc = "prep" /\ Moves(w) /\ wk'[w].pc # "crashed")
           => (wk'[w].gateHit <=> StagingFileHashExists(staging, wk[w].content))
        /\ (Moves(w) /\ wk'[w].gateHit)
           => /\ staging' = staging
              /\ normalized' = normalized
              /\ wk'[w].exc = "none"
              /\ wk'[w].result.skipped
              /\ wk'[w].result.staged_rows = 0
              /\ wk'[w].result.normalized_rows = 0
              /\ wk'[w].result.rejected_rows = 0
              /\ wk'[w].pc \in {"record", "mark", "returned"}
        /\ (wk[w].pc = "mark" /\ wk[w].gateHit /\ wk'[w].pc = "returned")
           => /\ jobStatus'[wk[w].job] = "Loaded"
              /\ jobEvents'[wk[w].job] =
                    Append(jobEvents[wk[w].job],
                           [status |-> "Loaded", message |-> "Duplicate upload detected"])

C4_GateHitShortCircuits == [][C4Step]_vars

C4_Witness ==
    \E w \in Workers :
        /\ wk[w].pc = "returned"
        /\ wk[w].gateHit
        /\ wk[w].job # NoJob
        /\ jobStatus[wk[w].job] = "Loaded"
        /\ Last(jobEvents[wk[w].job]).message = "Duplicate upload detected"

(* C5: once a job's own run has loaded and normalized its content, a retry
   of the job (stopped by the gate) leaves the staging rows, the normalized
   rows and the job's recorded result as that run left them. *)
C5_RetryKeepsResult ==
    [][\A w \in Workers :
          LET j == wk[w].job
          IN  (/\ Moves(w)
               /\ wk[w].gateHit
               /\ j # NoJob
               /\ jobResult[j] # NoResult
               /\ jobResult[j].total_rows > 0
               /\ \E r \in normalized : r.hash = wk[w].content)
              => /\ staging' = staging
                 /\ normalized' = normalized
                 /\ jobResult'[j] = jobResult[j]]_vars

(* C6: when run_pipeline raised PipelineExecutionError with a partial
   result, process_job writes that result to the job's result row once,
   then marks the job Error (never Loaded), and raises. *)
C6Step ==
    \A w \in Workers :
        LET l == wk[w]
            m == wk'[w]
            j == l.job
        IN  /\ (l.pc = "record" /\ l.exc = "pipeline" /\ m.pc = "mark")
               => /\ l.recorded = 0
                  /\ m.recorded = 1
                  /\ jobResult'[j] # NoResult
                  /\ jobResult'[j].total_rows = l.result.staged_rows
                  /\ jobResult'[j].processed_rows = l.result.inserted_count
                  /\ jobResult'[j].rejected_rows = l.result.rejected_rows
                  /\ jobStatus'[j] = jobStatus[j]
                  /\ jobEvents'[j] = jobEvents[j]
            /\ (l.pc = "mark" /\ l.exc = "pipeline" /\ Moves(w) /\ m.pc # "crashed")
               => /\ l.recorded = 1
                  /\ jobResult' = jobResult
                  /\ jobStatus'[j] = "Error"
                  /\ Len(jobEvents'[j]) = Len(jobEvents[j]) + 1
                  /\ IsPrefix(jobEvents[j], jobEvents'[j])
                  /\ Last(jobEvents'[j]).status = "Error"
                  /\ m.pc = "raised"
                  /\ m.exc = "pipeline"

C6_PartialResultRecordedThenError == [][C6Step]_vars

C6_Witness ==
    \E w \in Workers :
        /\ wk[w].pc = "raised"
        /\ wk[w].job # NoJob
        /\ wk[w].site = "mark"
        /\ wk[w].recorded = 1
        /\ jobStatus[wk[w].job] = "Error"
        /\ jobResult[wk[w].job] # NoResult
        /\ jobResult[wk[w].job].processed_rows > 0

(* C7: a successful set_status stores the new status and appends exactly one
   event with that status; a failed set_status (missing job) changes neither
   the status nor the events; written events are never changed or removed. *)
C7Step ==
    \A j \in JobIds :
        /\ IsPrefix(jobEvents[j], jobEvents'[j])
        /\ (nRuns' # nRuns /\ storeOut'.kind = "set_status" /\ storeOut'.job = j)
           => /\ storeOut'.ok <=> JobExists(jobStatus, j)
              /\ storeOut'.ok
                 => /\ Len(jobEvents'[j]) = Len(jobEvents[j]) + 1
                    /\ Last(jobEvents'[j]).status = jobStatus'[j]
              /\ ~storeOut'.ok
                 => /\ jobStatus'[j] = jobStatus[j]
                    /\ jobEvents'[j] = jobEvents[j]
              /\ \A k \in JobIds \ {j} :
                    jobStatus'[k] = jobStatus[k] /\ jobEvents'[k] = jobEvents[k]
        /\ jobStatus'[j] # jobStatus[j]
           => /\ Len(jobEvents'[j]) = Len(jobEvents[j]) + 1
              /\ Last(jobEvents'[j]).status = jobStatus'[j]

C7_StatusAndEventTogether == [][C7Step]_vars

C7_Witness ==
    /\ storeOut.kind = "set_status"
    /\ ~storeOut.ok
    /\ jobEvents[storeOut.job] = <<>>
    /\ \E j \in JobIds : Len(jobEvents[j]) >= 3 /\ jobStatus[j] = Last(jobEvents[j]).status

(* C8: when the staging loader fails after its transaction began, or the
   worker dies inside it, the staging table is left as it was: none of the
   load's rows persist. *)
C8Step ==
    \A w \in Workers :
        (/\ wk[w].pc \in {"load_begin", "load", "load_commit"}
         /\ Moves(w)
         /\ (wk'[w].pc = "crashed" \/ Failed(wk'[w])))
        => staging' = staging

C8_LoaderFailureRollsBack == [][C8Step]_vars

C8_Witness ==
    \E w \in Workers :
        /\ wk[w].pc = "raised"
        /\ wk[w].site = "load"
        /\ Rows(wk[w].content) > 0
        /\ LoadsOf(staging, wk[w].hash) = {}

(* C9: the overlap deletes, the normalized insert and the processed marks of
   one run become visible together at the commit; a failing statement or a
   crash before the commit leaves the normalized table and every processed
   mark as they were. *)
C9Step ==
    \A w \in Workers :
        LET l == wk[w]
            m == wk'[w]
        IN  /\ (l.pc \in {"norm", "norm_commit"} /\ Moves(w)
                  /\ (m.pc = "crashed" \/ Failed(m)))
               => normalized' = normalized /\ staging' = staging
            /\ (l.pc = "norm" /\ m.pc = "norm_commit")
               => normalized' = normalized /\ staging' = staging
            /\ (l.pc = "norm_commit" /\ Moves(w) /\ m.pc # "crashed")
               => /\ m.exc = "none"
                  /\ normalized' = (normalized \ l.txDel) \cup l.txIns
                  /\ \A r \in staging :
                        IF r \in l.txMark
                        THEN [r EXCEPT !.processed = TRUE] \in staging'
                        ELSE r \in staging'
                  /\ Cardinality(staging') = Cardinality(staging)

C9_NormalizationAtomic == [][C9Step]_vars

C9_Witness ==
    \E w \in Workers :
        /\ wk[w].pc = "raised"
        /\ wk[w].site = "mark"
        /\ wk[w].policy = "replace"
        /\ wk[w].overlaps # {}
        /\ wk[w].result.inserted_count > 0
        /\ \A o \in wk[w].overlaps : o.rec \in normalized
        /\ \A r \in normalized : r.hash # wk[w].hash
        /\ \E r \in LoadsOf(staging, wk[w].hash) : ~r.processed

(* C10, as stated: under append, a run that found an overlap leaves the
   normalized table untouched. *)
C10_AppendOverlapMutatesNothing ==
    [][\A w \in Workers :
          (Moves(w) /\ wk[w].policy = "append" /\ wk[w].overlaps # {})
          => normalized' = normalized]_vars

(* C10, amended: under append, pipeline.cli stops before enqueueing when a
   stored interval overlaps a requested one (the overlaps are its outcome, no
   job is created, nothing is enqueued, no table changes); run_pipeline
   itself goes on under append: it deletes and changes no stored normalized
   row and inserts the rows of its batch. *)
C10Step ==
    /\ \A c \in Contents : \A i \in RunInputs(c) :
          (i.policy = "append" /\ CheckTimeOverlap(normalized, i.ranges) # {})
          => CliOutcome(normalized, i.ranges, i.policy) =
                [kind |-> "overlap", overlaps |-> CheckTimeOverlap(normalized, i.ranges)]
    /\ cliOut' # cliOut
       => /\ UNCHANGED <<staging, normalized, jobStatus, jobEvents, jobResult, queue>>
          /\ cliOut'.kind = "overlap"
             => /\ cliOut'.overlaps # {}
                /\ \A o \in cliOut'.overlaps : o.rec \in normalized
    /\ \A w \in Workers :
          (Moves(w) /\ wk[w].policy = "append")
          => /\ normalized \subseteq normalized'
             /\ (wk[w].pc = "norm_commit" /\ wk'[w].pc # "crashed")
                => normalized' = normalized \cup wk[w].txIns

C10_AppendAbortsOnlyAtCli == [][C10Step]_vars

C10_Witness ==
    /\ cliOut.kind = "overlap"
    /\ \E w \in Workers :
          /\ wk[w].pc = "returned"
          /\ wk[w].policy = "append"
          /\ wk[w].overlaps # {}
          /\ wk[w].result.normalized_rows > 0
          /\ \A o \in wk[w].overlaps : o.rec \in normalized
          /\ \E r \in normalized : r.hash = wk[w].hash

(* C11: under replace, when requested intervals overlap stored rows, the
   commit removes every stored normalized row whose interval intersects a
   requested interval, keeps every other stored row, and adds the rows of
   the batch. *)
C11Step ==
    \A w \in Workers :
        LET l == wk[w]
            hit(r) == \E i \in DOMAIN l.ranges : Intersects(r, l.ranges[i])
        IN  (/\ l.pc = "norm_commit"
             /\ l.policy = "replace"
             /\ l.overlaps # {}
             /\ Moves(w)
             /\ wk'[w].pc # "crashed")
            => /\ \A r \in normalized : hit(r) => r \notin normalized'
               /\ \A r \in normalized : ~hit(r) => r \in normalized'
               /\ l.txIns \subseteq normalized'
               /\ normalized' \subseteq normalized \cup l.txIns
               /\ wk'[w].result.normalized_rows = l.inserted
               /\ ~wk'[w].result.skipped

C11_ReplaceDeletesIntersecting == [][C11Step]_vars

C11_Witness ==
    \E w \in Workers :
        /\ wk[w].pc = "returned"
        /\ wk[w].policy = "replace"
        /\ wk[w].overlaps # {}
        /\ \A o \in wk[w].overlaps : o.rec \notin normalized
        /\ \A r \in normalized : r.hash = wk[w].hash
        /\ normalized # {}

(* C12: under skip, when requested intervals overlap stored rows, the run
   leaves the normalized table unchanged, marks the staging rows of its
   batch processed, and returns skipped = true with no normalized rows. *)
C12Step ==
    \A w \in Workers :
        LET l == wk[w]
        IN  /\ (l.pc = "norm" /\ wk'[w].pc = "norm_commit"
                  /\ l.policy = "skip" /\ l.overlaps # {})
               => /\ wk'[w].txIns = {}
                  /\ wk'[w].txDel = {}
                  /\ wk'[w].txMark = LoadsOf(staging, l.hash)
            /\ (/\ l.pc = "norm_commit"
                /\ l.policy = "skip"
                /\ l.overlaps # {}
                /\ Moves(w)
                /\ wk'[w].pc # "crashed")
               => /\ normalized' = normalized
                  /\ \A r \in LoadsOf(staging', l.hash) : r.processed
                  /\ LoadsOf(staging', l.hash) # {}
                  /\ wk'[w].exc = "none"
                  /\ wk'[w].result.skipped
                  /\ wk'[w].result.normalized_rows = 0
                  /\ wk'[w].result.inserted_count = 0
                  /\ wk'[w].result.processed_at

C12_SkipLeavesNormalized == [][C12Step]_vars

C12_Witness ==
    \E w \in Workers :
        /\ wk[w].pc = "returned"
        /\ wk[w].policy = "skip"
        /\ wk[w].overlaps # {}
        /\ wk[w].result.skipped
        /\ \A o \in wk[w].overlaps : o.rec \in normalized
        /\ \A r \in normalized : r.hash # wk[w].hash
        /\ \E r \in LoadsOf(staging, wk[w].hash) : r.processed

(* C13: a check_time_overlap call that runs its queries returns one entry for
   exactly the pairs of a requested interval and a stored record with
   stored_start <= requested_end and stored_end >= requested_start.  A
   record stored inside the requested interval gives exactly one entry, a
   record stored wholly before the requested interval gives none. *)
C13_OverlapEntriesExact ==
    LET o == overlapOut
        pairs == {[req |-> o.time_ranges[i], rec |-> r] :
                     i \in DOMAIN o.time_ranges, r \in normalized}
    IN  (o.kind = "returned" /\ o.connected)
        => /\ o.overlaps \subseteq pairs
           /\ \A e \in pairs :
                e \in o.overlaps <=> (e.rec.lo <= e.req[2] /\ e.rec.hi >= e.req[1])
           /\ (normalized = {StoredRecord(<<2, 3>>)} /\ o.time_ranges = << <<1, 4>> >>)
              => Cardinality(o.overlaps) = 1
           /\ (normalized = {StoredRecord(<<1, 2>>)} /\ o.time_ranges = << <<3, 4>> >>)
              => o.overlaps = {}

C13_Witness ==
    /\ overlapOut.kind = "returned"
    /\ overlapOut.connected
    /\ normalized = {StoredRecord(<<2, 3>>), StoredRecord(<<1, 1>>)}
    /\ overlapOut.time_ranges = << <<3, 4>> >>
    /\ overlapOut.overlaps = {[req |-> <<3, 4>>, rec |-> StoredRecord(<<2, 3>>)]}

(* the strict identifier pattern: one or more of [A-Za-z0-9_], nothing else *)
MatchesPattern(name) ==
    /\ name # <<>>
    /\ \A i \in DOMAIN name : name[i] \in SafeChars

(* C14: a check_time_overlap call whose target table has a safe name and is
   not held by the database returns the empty list and does not raise. *)
C14_MissingTableReturnsEmpty ==
    LET o == overlapOut
    IN  (/\ o.kind # "none"
         /\ o.time_range_column = StoredColumn
         /\ o.time_ranges # <<>>
         /\ MatchesPattern(o.target_table)
         /\ o.target_table # StoredTable)
        => (o.kind = "returned" /\ o.overlaps = {})

(* C15 as stated: every check_time_overlap call given a table or column name
   outside the identifier pattern is rejected, with no connection opened. *)
C15_UnsafeNameAlwaysRejected ==
    LET o == overlapOut
        unsafe(name) == name # <<>> /\ ~MatchesPattern(name)
    IN  (o.kind # "none" /\ (unsafe(o.target_table) \/ unsafe(o.time_range_column)))
        => (o.kind = "raised" /\ o.error = "unsafe_identifier" /\ ~o.connected)

(* C15: a check_time_overlap call given a table name, a column name and at
   least one requested interval raises the unsafe-identifier error, before
   any connection is opened, when either name is outside the identifier
   pattern; a call missing one of the three returns the empty list without
   validating the names; no call opens a connection with a name outside the
   pattern. *)
C15_UnsafeNameRejectedBeforeConnect ==
    LET o == overlapOut
        given == o.target_table # <<>> /\ o.time_range_column # <<>> /\ o.time_ranges # <<>>
        safe == MatchesPattern(o.target_table) /\ MatchesPattern(o.time_range_column)
    IN  o.kind # "none"
        => /\ (given /\ ~safe)
              => (o.kind = "raised" /\ o.error = "unsafe_identifier"
                  /\ ~o.connected /\ o.overlaps = {})
           /\ ~given => (o.kind = "returned" /\ o.overlaps = {} /\ ~o.connected)
           /\ o.connected => safe
           /\ o.error = "unsafe_identifier" => ~safe

C15_Witness ==
    /\ overlapOut.kind = "raised"
    /\ overlapOut.error = "unsafe_identifier"
    /\ ~overlapOut.connected
    /\ overlapOut.target_table = <<"n", ";">>
    /\ overlapOut.time_range_column = StoredColumn
    /\ overlapOut.time_ranges # <<>>
    /\ \E r \in normalized : Intersects(r, overlapOut.time_ranges[1])

(* the step at which an exception that is not a PipelineExecutionError
   ends process_job *)
Unexpected(w) == wk'[w] # wk[w] /\ wk'[w].exc = "unexpected"

(* C16 as stated: an unexpected exception while a job is processed leaves the
   job recorded as Error with the generic message and does not leave
   process_job. *)
C16StatedStep ==
    \A w \in Workers :
        Unexpected(w)
        => /\ jobStatus'[wk'[w].job] = "Error"
           /\ Last(jobEvents'[wk'[w].job]) =
                 [status |-> "Error", message |-> "Unexpected error"]
           /\ wk'[w].pc # "raised"

C16_UnexpectedNeverPropagates == [][C16StatedStep]_vars

(* C16: an unexpected exception raised inside process_job's try block is
   caught by the generic handler, which writes Error with the generic
   message (one event, when the write succeeds) and then re-raises; an
   unexpected exception raised while the results are recorded is not caught
   and writes nothing.  In both cases the exception leaves process_job, and
   Loaded is not written. *)
C16Step ==
    \A w \in Workers :
        LET j == wk'[w].job
            generic == [status |-> "Error", message |-> "Unexpected error"]
        IN  Unexpected(w)
            => /\ wk'[w].pc = "raised"
               /\ jobResult' = jobResult
               /\ wk[w].pc \in Resting
                  => \/ /\ jobStatus'[j] = "Error"
                        /\ jobEvents'[j] = Append(jobEvents[j], generic)
                     \/ /\ jobStatus' = jobStatus
                        /\ jobEvents' = jobEvents
               /\ wk[w].pc = "record"
                  => /\ jobStatus' = jobStatus
                     /\ jobEvents' = jobEvents

C16_UnexpectedRecordedAndReraised == [][C16Step]_vars

C16_Witness ==
    \E w \in Workers :
        /\ wk[w].pc = "raised"
        /\ wk[w].exc = "unexpected"
        /\ wk[w].site = "notify"
        /\ jobStatus[wk[w].job] = "Error"
        /\ Last(jobEvents[wk[w].job]) = [status |-> "Error", message |-> "Unexpected error"]

(* C17: when run_pipeline returns normally with validation errors,
   process_job records the result once, then writes Error with the message
   built from the validation errors and returns; it does not write Loaded. *)
C17Step ==
    \A w \in Workers :
        LET l == wk[w]
            m == wk'[w]
            j == l.job
            case == l.exc = "none" /\ l.result # NoResult /\ l.result.validation_errors > 0
        IN  /\ (l.pc = "record" /\ case /\ m.pc = "mark")
               => /\ l.recorded = 0
                  /\ m.recorded = 1
                  /\ jobResult'[j] # NoResult
                  /\ jobResult'[j].total_rows = l.result.staged_rows
                  /\ jobResult'[j].rejected_rows = l.result.rejected_rows
                  /\ jobStatus'[j] = jobStatus[j]
                  /\ jobEvents'[j] = jobEvents[j]
            /\ (l.pc = "mark" /\ case /\ Moves(w) /\ m.pc # "crashed")
               => /\ l.recorded = 1
                  /\ m.recorded = 1
                  /\ jobResult' = jobResult
                  /\ jobStatus'[j] = "Error"
                  /\ jobEvents'[j] = Append(jobEvents[j],
                        [status |-> "Error", message |-> "validation errors"])
                  /\ m.pc = "returned"

C17_ValidationErrorsEndInError == [][C17Step]_vars

C17_Witness ==
    \E w \in Workers :
        /\ wk[w].pc = "returned"
        /\ wk[w].job # NoJob
        /\ wk[w].exc = "none"
        /\ wk[w].result.validation_errors > 0
        /\ wk[w].recorded = 1
        /\ jobStatus[wk[w].job] = "Error"
        /\ jobResult[wk[w].job].rejected_rows > 0
        /\ \A i \in DOMAIN jobEvents[wk[w].job] : jobEvents[wk[w].job][i].status # "Loaded"

(* the events a step appends to the history of job j *)
Appended(j) == SubSeq(jobEvents'[j], Len(jobEvents[j]) + 1, Len(jobEvents'[j]))

(* run_pipeline returned a result that is neither a duplicate nor carries
   validation errors *)
CleanLoad(l) ==
    /\ l.exc = "none"
    /\ l.result # NoResult
    /\ ~l.result.skipped
    /\ l.result.validation_errors = 0

(* C18: in a process_job run whose result is not a duplicate and has no
   validation errors, the status writes are Parsing (at the start),
   Validating (before validation) and Loaded (at the end), one event each
   and in that order; no other step of the run writes a status; the result
   is recorded once, before Loaded; Error is not written. *)
C18Step ==
    \A w \in Workers :
        LET l == wk[w]
            m == wk'[w]
            j == m.job
            ev(status) == [status |-> status, message |-> "null"]
        IN  (Moves(w) /\ j # NoJob /\ m.pc # "crashed")
            => /\ IsPrefix(jobEvents[j], jobEvents'[j])
               /\ l.pc \in Resting => Appended(j) = <<ev("Parsing")>>
               /\ l.pc = "prepare" => Appended(j) = <<ev("Validating")>>
               /\ l.pc \notin Resting \cup {"prepare", "mark"} => Appended(j) = <<>>
               /\ l.pc # "record" => jobResult' = jobResult
               /\ (l.pc = "record" /\ CleanLoad(l))
                  => /\ l.recorded = 0
                     /\ m.recorded = 1
                     /\ m.pc = "mark"
                     /\ jobResult'[j] # NoResult
               /\ (l.pc = "mark" /\ CleanLoad(l))
                  => /\ l.recorded = 1
                     /\ m.recorded = 1
                     /\ m.pc = "returned"
                     /\ Appended(j) = <<ev("Loaded")>>
                     /\ jobStatus'[j] = "Loaded"
                     /\ Len(jobEvents'[j]) >= 3
                     /\ SubSeq(jobEvents'[j], Len(jobEvents'[j]) - 2, Len(jobEvents'[j]))
                           = <<ev("Parsing"), ev("Validating"), ev("Loaded")>>

C18_CleanRunStatusSequence == [][C18Step]_vars

C18_Witness ==
    \E w \in Workers :
        /\ wk[w].pc = "returned"
        /\ wk[w].job # NoJob
        /\ CleanLoad(wk[w])
        /\ wk[w].recorded = 1
        /\ wk[w].result.normalized_rows > 0
        /\ jobResult[wk[w].job] # NoResult
        /\ jobEvents[wk[w].job] =
              <<[status |-> "Queued", message |-> "Queued for processing"],
                [status |-> "Parsing", message |-> "null"],
                [status |-> "Validating", message |-> "null"],
                [status |-> "Loaded", message |-> "null"]>>

QueuedEvent == [status |-> "Queued", message |-> "Queued for processing"]

(* C19: enqueue_job rejects a file size or a row count strictly greater than
   its limit and accepts a value equal to the limit; a rejected upload leaves
   a job in Error with the limit message after its Queued event, puts
   nothing on the queue, and neither call touches the staging or normalized
   tables or starts a run. *)
C19Step ==
    /\ \A file_size \in Sizes, row_count \in Sizes, max_file_size \in Sizes, max_rows \in Sizes :
          EnforceLimits(file_size, row_count, max_file_size, max_rows)
             <=> (file_size > max_file_size \/ row_count > max_rows)
    /\ (\E j \in JobIds : jobStatus[j] = "absent")
       => \A file_size \in Sizes, row_count \in Sizes :
             LET r == EnqueueJob(Store, FreshJobId,
                                 EnforceLimits(file_size, row_count, 1, 1))
             IN  IF file_size > 1 \/ row_count > 1
                 THEN /\ ~r.enqueued
                      /\ r.store.status[FreshJobId] = "Error"
                      /\ r.store.events[FreshJobId] =
                            <<QueuedEvent, [status |-> "Error", message |-> "limit exceeded"]>>
                 ELSE /\ r.enqueued
                      /\ r.store.status[FreshJobId] = "Queued"
                      /\ r.store.events[FreshJobId] = <<QueuedEvent>>
    /\ \A j \in JobIds :
          (jobStatus[j] = "absent" /\ jobStatus'[j] # "absent")
          => /\ UNCHANGED <<staging, normalized, wk, jobResult>>
             /\ \/ /\ jobStatus'[j] = "Queued"
                   /\ jobEvents'[j] = <<QueuedEvent>>
                   /\ queue' = queue \cup {j}
                \/ /\ jobStatus'[j] = "Error"
                   /\ jobEvents'[j] =
                         <<QueuedEvent, [status |-> "Error", message |-> "limit exceeded"]>>
                   /\ queue' = queue

C19_LimitExceededRejected == [][C19Step]_vars

C19_Witness ==
    \E j \in JobIds, k \in JobIds :
        /\ jobStatus[j] = "Error"
        /\ jobEvents[j] = <<QueuedEvent, [status |-> "Error", message |-> "limit exceeded"]>>
        /\ j \notin queue
        /\ k \in queue
        /\ jobStatus[k] = "Queued"
        /\ staging = {}
        /\ normalized = {}

(* C20: every job id on the queue, and every job id a worker is or was
   processing, has a persisted job whose first event is the Queued event; a
   job id enters the queue only in the call that created its job; no step
   removes a job. *)
C20Step ==
    /\ \A j \in queue' :
          /\ JobExists(jobStatus', j)
          /\ jobEvents'[j] # <<>>
          /\ jobEvents'[j][1] = QueuedEvent
    /\ \A j \in queue' \ queue : jobStatus[j] = "absent" /\ jobStatus'[j] = "Queued"
    /\ \A w \in Workers :
          wk'[w].job # NoJob
          => /\ JobExists(jobStatus', wk'[w].job)
             /\ (wk'[w].job # wk[w].job => wk'[w].job \in queue)
    /\ \A j \in JobIds : JobExists(jobStatus, j) => JobExists(jobStatus', j)

C20_QueuedJobIsPersisted == [][C20Step]_vars

C20_Witness ==
    \E w \in Workers :
        /\ wk[w].pc = "prep"
        /\ wk[w].job \in queue
        /\ jobStatus[wk[w].job] = "Parsing"
        /\ jobEvents[wk[w].job][1] = QueuedEvent
        /\ \E k \in JobIds : jobStatus[k] = "absent"

(* the values of one record_results call as a result row that keeps the
   stored rejected_rows_path *)
ResultRow(total, processed, rejected, table, path) ==
    [total_rows |-> total, processed_rows |-> processed,
     successful_rows |-> processed, rejected_rows |-> rejected,
     normalized_table_name |-> table, rejected_rows_path |-> path]

(* C21: upload_job_results never holds more than one row per job id; a
   record_results call leaves exactly one row for its job, holding the values
   of that call, whether or not a row existed before, and a second call
   replaces the values of the first without adding a row; rows of other jobs
   are not changed. *)
C21Step ==
    /\ \A j \in JobIds :
          /\ resultRows'[j] <= 1
          /\ resultRows[j] = 1 => resultRows'[j] = 1
          /\ resultRows'[j] = 1 <=> jobResult'[j] # NoResult
    /\ \A j \in {k \in JobIds : JobExists(jobStatus, k)}, total \in {1, 2}, rejected \in {0, 1} :
          LET first == RecordResults(Store, j, total, total - rejected, rejected, TRUE)
              path == IF jobResult[j] = NoResult THEN FALSE
                      ELSE jobResult[j].rejected_rows_path
              again == RecordResults(first, j, 3 - total, 2 - total, 1 - rejected, FALSE)
          IN  /\ first.ok
              /\ first.rows[j] = 1
              /\ first.result[j] = ResultRow(total, total - rejected, rejected, TRUE, path)
              /\ \A k \in JobIds \ {j} :
                    first.rows[k] = resultRows[k] /\ first.result[k] = jobResult[k]
              /\ again.rows[j] = 1
              /\ again.result[j] = ResultRow(3 - total, 2 - total, 1 - rejected, FALSE, path)
    /\ (nRuns' # nRuns /\ storeOut'.kind = "record_results")
       => LET j == storeOut'.job
          IN  /\ storeOut'.ok
              /\ resultRows'[j] = 1
              /\ \E total \in {1, 2}, rejected \in {0, 1} :
                    jobResult'[j] = ResultRow(total, total - rejected, rejected, TRUE,
                                              IF jobResult[j] = NoResult THEN FALSE
                                              ELSE jobResult[j].rejected_rows_path)
              /\ \A k \in JobIds \ {j} : jobResult'[k] = jobResult[k]

C21_OneResultRowPerJob == [][C21Step]_vars

C21_Witness ==
    \E j \in JobIds :
        /\ storeOut.kind = "record_results"
        /\ storeOut.job = j
        /\ nRuns = 4
        /\ \A k \in JobIds \ {j} : jobStatus[k] = "absent"
        /\ jobEvents[j] = <<[status |-> "Queued", message |-> "Queued for processing"]>>
        /\ resultRows[j] = 1
        /\ jobResult[j] = ResultRow(2, 1, 1, TRUE, TRUE)

(* C22: save_rejected_rows_path succeeds exactly when the job already has a
   result row; without one it fails and changes nothing; with one it sets the
   path on that row and changes nothing else.  _record_job_results calls
   record_results first, so its save of the path finds the row even for a job
   that had no result before. *)
C22Step ==
    /\ (nRuns' # nRuns /\ storeOut'.kind = "save_rejected_rows_path")
       => LET j == storeOut'.job
          IN  /\ storeOut'.ok <=> jobResult[j] # NoResult
              /\ ~storeOut'.ok
                 => UNCHANGED <<jobStatus, jobEvents, jobResult, resultRows>>
              /\ storeOut'.ok
                 => /\ jobResult' = [jobResult EXCEPT ![j].rejected_rows_path = TRUE]
                    /\ UNCHANGED <<jobStatus, jobEvents, resultRows>>
    /\ \A j \in {k \in JobIds : JobExists(jobStatus, k)}, staged \in {1, 2}, path \in BOOLEAN :
          LET r == [staged_rows |-> staged, inserted_count |-> staged - 1,
                    rejected_rows |-> 1, normalized_table |-> TRUE,
                    rejected_rows_path |-> path]
              done == RecordJobResults(Store, j, r)
          IN  /\ done.ok
              /\ done.rows[j] = 1
              /\ done.result[j].total_rows = staged
              /\ path => done.result[j].rejected_rows_path

C22_PathSavedOnlyAfterResults == [][C22Step]_vars

C22_Witness ==
    \E j \in JobIds :
        /\ storeOut = [kind |-> "save_rejected_rows_path", job |-> j, ok |-> FALSE]
        /\ JobExists(jobStatus, j)
        /\ jobResult[j] = NoResult
        /\ resultRows[j] = 0
        /\ jobStatus[j] = "Validating"

-----------------------------------------------------------------------------
(* prep_excel: configuration lookup *)

(* the rows stored for a workbook type, after the blank type became "default" *)
RowsOfType(rows, workbook_type) ==
    {i \in 1..Len(rows) : WorkbookTypeOf(rows[i]) = workbook_type}

(* the rows stored for a (workbook type, sheet) pair *)
RowsOfPair(rows, workbook_type, sheet) ==
    {i \in RowsOfType(rows, workbook_type) : rows[i].sheet_name = sheet}

(* a finished _get_table_config call on the stored rows *)
LookedUp == configOut.kind = "get_table_config"

(* C23 as stated: the lookup returns the type-specific entry when the pair has
   rows, otherwise the "default" entry of the sheet; with neither, it fails
   with "Unsupported workbook type" when the requested workbook type has no
   rows at all, and with "Unsupported sheet name" otherwise. *)
C23_LookupFallsBackThenFails ==
    LookedUp =>
        LET config == ParseSheetConfigRows(configRows)
            sheet == configOut.sheet
            workbook_type == configOut.workbook_type
            specific == RowsOfPair(configRows, workbook_type, sheet) # {}
            fallback == RowsOfPair(configRows, "default", sheet) # {}
        IN  /\ specific => /\ configOut.raised = "none"
                            /\ configOut.entry = config.entry[<<workbook_type, sheet>>]
            /\ (~specific /\ fallback) => /\ configOut.raised = "none"
                                          /\ configOut.entry = config.entry[<<"default", sheet>>]
            /\ (~specific /\ ~fallback) =>
                   configOut.raised =
                      IF RowsOfType(configRows, workbook_type) = {}
                      THEN "Unsupported workbook type"
                      ELSE "Unsupported sheet name"

(* C23, amended: as above, except that the "default" workbook type is never
   reported as unsupported: a lookup for "default" that finds no entry fails
   with "Unsupported sheet name" also when no row of type "default" exists. *)
C23_LookupFallsBackThenFailsExceptDefault ==
    LookedUp =>
        LET config == ParseSheetConfigRows(configRows)
            sheet == configOut.sheet
            workbook_type == configOut.workbook_type
            specific == RowsOfPair(configRows, workbook_type, sheet) # {}
            fallback == RowsOfPair(configRows, "default", sheet) # {}
        IN  /\ specific => /\ configOut.raised = "none"
                            /\ configOut.entry = config.entry[<<workbook_type, sheet>>]
                            /\ configOut.entry # NoEntry
            /\ (~specific /\ fallback) => /\ configOut.raised = "none"
                                          /\ configOut.entry = config.entry[<<"default", sheet>>]
                                          /\ configOut.entry # NoEntry
            /\ (~specific /\ ~fallback) =>
                   /\ configOut.entry = NoEntry
                   /\ configOut.raised =
                         IF RowsOfType(configRows, workbook_type) = {} /\ workbook_type # "default"
                         THEN "Unsupported workbook type"
                         ELSE "Unsupported sheet name"

(* a lookup for "custom" fell back to a "default" entry that differs from
   every entry of "custom" *)
C23_Witness ==
    /\ LookedUp
    /\ configOut.workbook_type = "custom"
    /\ RowsOfType(configRows, "custom") # {}
    /\ RowsOfPair(configRows, "custom", configOut.sheet) = {}
    /\ RowsOfPair(configRows, "default", configOut.sheet) # {}
    /\ configOut.raised = "none"
    /\ configOut.entry = ConfigEntry(configRows[1])

(* C24: once a row of a (workbook type, sheet) pair set the normalized table
   explicitly, the entry of the pair is the one of the last such row: no later
   row with a derived normalized table replaces it. *)
C24_ExplicitNormalizedTableKept ==
    LookedUp =>
        LET explicit == {i \in RowsOfPair(configRows, configOut.workbook_type, configOut.sheet) :
                            configRows[i].normalized_table # <<>>}
            last == CHOOSE i \in explicit : \A k \in explicit : k <= i
        IN  explicit # {} =>
               /\ configOut.raised = "none"
               /\ configOut.entry.normalized_table = configRows[last].normalized_table
               /\ configOut.entry.table = configRows[last].staging_table

(* an explicit row followed by a row of the same pair with another staging
   table and no explicit normalized table: the lookup returns the first *)
C24_Witness ==
    /\ LookedUp
    /\ Len(configRows) = 2
    /\ WorkbookTypeOf(configRows[1]) = configOut.workbook_type
    /\ WorkbookTypeOf(configRows[2]) = configOut.workbook_type
    /\ configRows[1].sheet_name = configOut.sheet
    /\ configRows[2].sheet_name = configOut.sheet
    /\ configRows[1].normalized_table # <<>>
    /\ configRows[2].normalized_table = <<>>
    /\ configRows[2].staging_table # configRows[1].staging_table
    /\ configOut.entry = ConfigEntry(configRows[1])

-----------------------------------------------------------------------------
(* prep_excel and ingest_excel: cache invalidation *)

(* a step that executed CREATE TABLE or ADD COLUMN on a staging table *)
SchemaMutated == stagingColumns' # stagingColumns

(* C25: after an operation that changed a staging schema, the cache of the
   connection settings is empty or holds what the configuration table holds
   now, so that the next lookup with the settings does not return a value
   cached before the change. *)
C25Step ==
    SchemaMutated =>
        \/ configCache' = NoConfigCache
        \/ configCache'.config = ParseSheetConfigRows(configRows')

C25_CacheInvalidatedOnSchemaMutation == [][C25Step]_vars

-----------------------------------------------------------------------------
(* normalize_staging: processed marks on staging rows *)

(* the staging rows of hash h whose processed_at is unset *)
Unprocessed(rows, h) == {r \in rows : r.hash = h /\ ~r.processed}

(* C26: a staging row is never deleted and changes only by having its
   processed mark set while it was unset. The UPDATE of a batch matches only
   rows of the batch's file hash whose mark is unset, and the commit of a
   batch changes no row of another hash and no row already marked. *)
C26Step ==
    /\ \A r \in staging :
          \/ r \in staging'
          \/ ~r.processed /\ [r EXCEPT !.processed = TRUE] \in staging'
    /\ \A r \in staging' :
          \/ r \in staging
          \/ r.processed /\ [r EXCEPT !.processed = FALSE] \in staging
          \/ \E w \in Workers : wk[w].pc = "load_commit" /\ Moves(w) /\ r \in wk[w].txLoad
    /\ \A w \in Workers :
          (wk[w].pc = "norm" /\ wk'[w].pc = "norm_commit")
             => /\ wk'[w].txMark \subseteq Unprocessed(staging, wk[w].hash)
                /\ (wk[w].fetched # {} => wk'[w].txMark = Unprocessed(staging, wk[w].hash))
    /\ \A w \in Workers :
          (wk[w].pc = "norm_commit" /\ Moves(w))
             => \A r \in staging :
                   (r.hash # wk[w].hash \/ r.processed) => r \in staging'

C26_StagingRowsOnlyMarkedOnce == [][C26Step]_vars

(* a batch is about to commit its marks while the staging table holds a row
   of the same hash that is already marked *)
C26_Witness ==
    \E w \in Workers :
        /\ wk[w].pc = "norm_commit"
        /\ wk[w].txMark # {}
        /\ \E r \in staging : r.hash = wk[w].hash /\ r.processed

-----------------------------------------------------------------------------
(* identifiers: sanitize_identifier *)

(* value with the numeric suffix _k, cut so that the whole fits the limit *)
WithSuffix(value, k) ==
    LET suffix == <<"_">> \o Decimal(k)
    IN  IF Len(value) + Len(suffix) <= MaxIdentifierLength THEN value \o suffix
        ELSE SubSeq(value, 1, MaxIdentifierLength - Len(suffix)) \o suffix

(* the k-th candidate of the loop: a suffix the value already ends with is
   not appended a second time *)
CandidateOf(value, k) ==
    IF EndsWith(value, <<"_">> \o Decimal(k)) THEN value ELSE WithSuffix(value, k)

(* what every call guarantees, whatever the suffix *)
ReturnedIsFresh ==
    LET call == sanitizeCalls'[Len(sanitizeCalls')]
    IN  /\ call.returned # <<>>
        /\ Len(call.returned) <= MaxIdentifierLength
        /\ call.returned \notin usedIdentifiers
        /\ \A i \in 1..Len(sanitizeCalls) : sanitizeCalls[i].returned # call.returned
        /\ usedIdentifiers' = usedIdentifiers \cup {call.returned}
        /\ \A char \in {call.returned[i] : i \in 1..Len(call.returned)} :
              Category(char) \in {"L", "N"} \/ char = "_"

(* C27 as stated: every returned identifier is non-empty, at most 64
   characters long and different from every identifier in the set and from
   every earlier return; a name that collides is returned with the first
   suffix _1, _2, ... that makes it free. *)
C27StatedStep ==
    sanitizeCalls' # sanitizeCalls =>
        LET call == sanitizeCalls'[Len(sanitizeCalls')]
            value == SanitizedValue(call.name)
            free == {k \in 1..(Cardinality(usedIdentifiers) + 1) :
                        WithSuffix(value, k) \notin usedIdentifiers}
        IN  /\ ReturnedIsFresh
            /\ value \notin usedIdentifiers => call.returned = value
            /\ value \in usedIdentifiers =>
                   \E k \in free : /\ call.returned = WithSuffix(value, k)
                                    /\ \A m \in free : k <= m

C27_FirstFreeSuffix == [][C27StatedStep]_vars

(* C27, amended: as above, except that the loop does not append a suffix the
   name already ends with: that round yields the name itself, which is in
   use, and the next suffix is tried. *)
C27Step ==
    sanitizeCalls' # sanitizeCalls =>
        LET call == sanitizeCalls'[Len(sanitizeCalls')]
            value == SanitizedValue(call.name)
            free == {k \in 1..(Cardinality(usedIdentifiers) + 2) :
                        CandidateOf(value, k) \notin usedIdentifiers}
        IN  /\ ReturnedIsFresh
            /\ value \notin usedIdentifiers => call.returned = value
            /\ value \in usedIdentifiers =>
                   \E k \in free : /\ call.returned = CandidateOf(value, k)
                                    /\ \A m \in free : k <= m

C27_FirstFreeSuffixNotRepeated == [][C27Step]_vars

(* the same name was sanitized twice, starting from the empty set: the second
   return has the suffix _1 *)
C27_Witness ==
    /\ Len(sanitizeCalls) = 2
    /\ \A i \in 1..2 : sanitizeCalls[i].name = <<"a">>
    /\ sanitizeCalls[1].returned = <<"a">>
    /\ sanitizeCalls[2].returned = <<"a", "_", "1">>
    /\ usedIdentifiers = {<<"a">>, <<"a", "_", "1">>}

(* the value the normalized column takes from a staging row *)
ValueFor(column, row, column_mappings, metadata_set) ==
    IF column \in metadata_set
    THEN CASE column = "raw_id" -> Get(row, "id")
           [] column = "source_year" -> CoerceSourceYear(Get(row, column))
           [] column = "ingested_at" -> CoerceIngestedAt(Get(row, column))
           [] OTHER -> Get(row, column)
    ELSE LET source == SourceOf(column_mappings, column)
         IN  CoerceBusinessValue(column,
                 IF source \in {Null, ""} THEN Null ELSE Get(row, source))

InsertExecuted ==
    /\ batchOut.kind = "insert_normalized_rows"
    /\ batchOut.out.executed

(* C28: for every column mapping and metadata-column configuration, the
   ordered column list of the INSERT statement and every produced row tuple
   agree in order and length: no column is listed twice, the number of
   placeholders is the number of columns and the length of every tuple, and
   value i of each tuple is the value of column i for that staging row *)
C28_ColumnsAndTuplesAgree ==
    InsertExecuted =>
        LET out == batchOut.out
            metadata_set == Elements(ResolveMetadataColumns(batchOut.metadata_columns))
        IN  /\ out.placeholders = Len(out.columns)
            /\ \A i, k \in 1..Len(out.columns) :
                   out.columns[i] = out.columns[k] => i = k
            /\ Len(out.params) = Len(batchOut.rows)
            /\ \A r \in 1..Len(out.params) :
                   /\ Len(out.params[r]) = out.placeholders
                   /\ \A i \in 1..Len(out.columns) :
                          out.params[r][i] =
                              ValueFor(out.columns[i], batchOut.rows[r],
                                       out.resolved_mappings, metadata_set)

(* a batch of two different rows inserted under a mapping that renames a
   column and names a metadata column, with a cleaned metadata list *)
C28_Witness ==
    /\ InsertExecuted
    /\ Len(batchOut.rows) = 2
    /\ batchOut.rows[1] # batchOut.rows[2]
    /\ batchOut.column_mappings =
           <<[column |-> "note", source |-> "t"], [column |-> "file_hash", source |-> "t"]>>
    /\ batchOut.metadata_columns = Given(<<"batch_id", " raw_id", "batch_id">>)
    /\ batchOut.out.columns =
           <<"batch_id", "raw_id", "file_hash", "source_year", "ingested_at",
             "note", "date", "hours">>
    /\ batchOut.out.params[1] =
           <<"b", "1", "h", "int(2024)", "datetime(2024-05-01 10:00:00)",
             "x", "date(2024-05-01)", "Decimal(1.5)">>

(* a row fails when some check returns a non-empty text for it *)
FailsSomeCheck(row, checks, columns) ==
    \E i \in 1..Len(checks) : CheckError(checks[i], row, columns) \notin {Null, ""}

Validated == batchOut.kind = "validate_rows"

(* C29: validate_rows partitions its input without loss: the accepted rows
   are the input rows that pass every check, in input order; the rejected
   list is the prior rejections followed by one rejection per input row that
   fails some check, in input order, carrying that row's values; so every
   input row is in exactly one of the two *)
C29_ValidateRowsPartitions ==
    Validated =>
        LET rows == batchOut.prepared.normalized_rows
            prior == batchOut.prepared.rejected_rows
            columns == batchOut.prepared.ordered_columns
            checks == batchOut.checks
            accepted == batchOut.out.prepared.normalized_rows
            rejected == batchOut.out.prepared.rejected_rows
            Fails(row) == FailsSomeCheck(row, checks, columns)
            Passes(row) == ~FailsSomeCheck(row, checks, columns)
            failing == SelectSeq(rows, Fails)
        IN  /\ accepted = SelectSeq(rows, Passes)
            /\ Len(rejected) = Len(prior) + Len(failing)
            /\ SubSeq(rejected, 1, Len(prior)) = prior
            /\ \A i \in 1..Len(failing) :
                   /\ \A c \in 1..Len(columns) :
                          rejected[Len(prior) + i].data[columns[c]] = failing[i][c]
                   /\ rejected[Len(prior) + i].errors # <<>>
            /\ Len(accepted) + Len(rejected) - Len(prior) = Len(rows)

(* a batch of a passing row followed by a failing one, validated on top of a
   prior rejection: one row accepted, two rejections, the prior one first *)
C29_Witness ==
    /\ Validated
    /\ batchOut.prepared.normalized_rows = <<<<"1", "Alice">>, <<"2", Null>>>>
    /\ Len(batchOut.prepared.rejected_rows) = 1
    /\ batchOut.checks = <<"require_name">>
    /\ batchOut.job_id = "job-123"
    /\ batchOut.out.prepared.normalized_rows = <<<<"1", "Alice">>>>
    /\ Len(batchOut.out.prepared.rejected_rows) = 2
    /\ batchOut.out.prepared.rejected_rows[1].errors = <<"existing error">>
    /\ batchOut.out.prepared.rejected_rows[2].errors = <<"name missing">>
    /\ batchOut.out.errors = <<"existing error", "name missing">>
    /\ batchOut.out.rejected_rows_path # <<>>

BatchDone == batchOut.kind = "prepare_and_validate"

(* the coercer of a business column cannot read the value *)
Unparseable(column, value) ==
    \/ column = "date" /\ CoerceDate(value) = Null
    \/ column = "hours" /\ CoerceDecimal(value) = Null

(* the business columns of a staging row that hold a value their coercer
   cannot read *)
OffendingColumns(row, resolved_mappings, metadata_set) ==
    {resolved_mappings[i].column : i \in
        {k \in 1..Len(resolved_mappings) :
            /\ resolved_mappings[k].column \notin metadata_set
            /\ resolved_mappings[k].source \notin {Null, ""}
            /\ Get(row, resolved_mappings[k].source) \notin {Null, ""}
            /\ Unparseable(resolved_mappings[k].column,
                           Get(row, resolved_mappings[k].source))}}

(* C30: row-level coercion and validation failures never abort a batch:
   preparation and validation of any batch return a result in which every
   staging row with a value its coercer cannot read is a rejected row holding
   that row and one error per offending column that names the column, every
   other row that fails a check is a rejected row after those, and the
   remaining rows, and only they, are the normalized rows, in order *)
C30_RowFailuresAreIsolated ==
    BatchDone =>
        LET rows == batchOut.rows
            resolved == batchOut.prepared.resolved_mappings
            columns == batchOut.prepared.ordered_columns
            metadata_set == Elements(batchOut.prepared.metadata_columns)
            checks == batchOut.checks
            Tuple(row) == [i \in 1..Len(columns) |->
                              ValueFor(columns[i], row, resolved, metadata_set)]
            CoercionFails(row) == OffendingColumns(row, resolved, metadata_set) # {}
            CheckFails(row) == /\ ~CoercionFails(row)
                               /\ FailsSomeCheck(Tuple(row), checks, columns)
            Survives(row) == ~CoercionFails(row) /\ ~CheckFails(row)
            coercion_failed == SelectSeq(rows, CoercionFails)
            check_failed == SelectSeq(rows, CheckFails)
            survivors == SelectSeq(rows, Survives)
            rejected == batchOut.out.prepared.rejected_rows
            kept == batchOut.out.prepared.normalized_rows
        IN  /\ Len(rejected) = Len(coercion_failed) + Len(check_failed)
            /\ \A i \in 1..Len(coercion_failed) :
                   /\ rejected[i].data = coercion_failed[i]
                   /\ Elements(rejected[i].errors) =
                          {CoercionError(column) : column \in
                              OffendingColumns(coercion_failed[i], resolved, metadata_set)}
            /\ \A i \in 1..Len(check_failed) :
                   /\ rejected[Len(coercion_failed) + i].data =
                          RowsToDict(columns, Tuple(check_failed[i]))
                   /\ rejected[Len(coercion_failed) + i].errors # <<>>
            /\ kept = [i \in 1..Len(survivors) |-> Tuple(survivors[i])]
            /\ Len(kept) + Len(rejected) = Len(rows)

(* a batch of a row whose decimal column holds not-a-number and a good row:
   the first is rejected with an error naming the column, the second is
   normalized with the decimal value *)
C30_Witness ==
    /\ BatchDone
    /\ Len(batchOut.rows) = 2
    /\ batchOut.rows[1].hours = "not-a-number"
    /\ batchOut.rows[2].hours = "1.5"
    /\ batchOut.column_mappings = <<>>
    /\ batchOut.metadata_columns = NotGiven
    /\ batchOut.reserved_source_columns = NotGiven
    /\ batchOut.checks = <<"raw_id_is_one">>
    /\ Len(batchOut.out.prepared.rejected_rows) = 1
    /\ batchOut.out.prepared.rejected_rows[1].errors = <<CoercionError("hours")>>
    /\ batchOut.out.prepared.normalized_rows =
           <<<<"1", "h", "b", "int(2024)", "datetime(2024-05-01 10:00:00)",
               "date(2024-05-01)", "Decimal(1.5)", "x">>>>

(* the run of worker l is the only one that has loaded the staging table: the
   table was empty, and the hash new, when the run began *)
FirstLoad(l, rows) == rows # {} /\ \A r \in rows : r.batch = l.run

(* C31: a run against an empty staging table with a workbook of n rows that
   all coerce (n = 3 for workbook "a"), a new content hash and the required
   columns present returns a PipelineResult with staged_rows = n,
   normalized_rows = n, rejected_rows = 0 and skipped = false *)
C31Step ==
    \A w \in Workers :
        LET l == wk[w]
            m == wk'[w]
        IN  (/\ l.pc = "norm_commit"
             /\ Moves(w)
             /\ m.pc # "crashed"
             /\ FirstLoad(l, staging)
             /\ Bad(l.content) = 0)
            => /\ m.exc = "none"
               /\ m.pc \in {"returned", "record"}
               /\ m.result.staged_rows = Rows(l.content)
               /\ m.result.normalized_rows = Rows(l.content)
               /\ m.result.rejected_rows = 0
               /\ ~m.result.skipped
               /\ Rows(l.content) > 0

C31_CleanFirstRunCounts == [][C31Step]_vars

(* the three-row workbook, run once against the empty table *)
C31_Witness ==
    \E w \in Workers :
        /\ wk[w].pc = "returned"
        /\ wk[w].exc = "none"
        /\ wk[w].content = "a"
        /\ ~wk[w].gateHit
        /\ Cardinality(staging) = 1
        /\ \A r \in staging : r.hash = wk[w].hash /\ r.processed
        /\ wk[w].result.staged_rows = 3
        /\ wk[w].result.normalized_rows = 3
        /\ wk[w].result.rejected_rows = 0
        /\ ~wk[w].result.skipped

(* C32: validate_rows writes a rejected-rows artifact and returns its path
   if and only if a job id is present and at least one row is rejected (by
   coercion before the call or by a check in it): then exactly one file, the
   job's, is written with one record per rejected row and its path is
   returned; with no rejection, or no job id, nothing is written and no path
   is returned *)
C32_ArtifactIffJobAndRejections ==
    Validated =>
        LET out == batchOut.out
            present == batchOut.job_id \notin {Null, ""}
            rejected == Len(batchOut.prepared.rejected_rows) +
                        Len(SelectSeq(batchOut.prepared.normalized_rows,
                                LAMBDA row : FailsSomeCheck(row, batchOut.checks,
                                                 batchOut.prepared.ordered_columns)))
        IN  IF present /\ rejected > 0
            THEN /\ out.rejected_rows_path = <<"uploads/rejected", batchOut.job_id, ".csv">>
                 /\ out.files = {[path |-> out.rejected_rows_path, records |-> rejected]}
            ELSE /\ out.rejected_rows_path = <<>>
                 /\ out.files = {}

(* a job's batch whose only rejection comes from a check: the file is
   written and its path returned *)
C32_Witness ==
    /\ Validated
    /\ batchOut.job_id = "job-123"
    /\ batchOut.prepared.rejected_rows = <<>>
    /\ batchOut.prepared.normalized_rows = <<<<"3", "bad">>>>
    /\ batchOut.checks = <<"name_not_bad", "id_is_one">>
    /\ batchOut.out.rejected_rows_path = <<"uploads/rejected", "job-123", ".csv">>
    /\ batchOut.out.files = {[path |-> batchOut.out.rejected_rows_path, records |-> 1]}

(* the same rejections without a job id leave no file and no path *)
C32_WitnessNoJob ==
    /\ Validated
    /\ batchOut.job_id = Null
    /\ Len(batchOut.out.prepared.rejected_rows) > 0
    /\ batchOut.out.rejected_rows_path = <<>>
    /\ batchOut.out.files = {}

Resolved == batchOut.kind = "resolve_column_mappings"

(* C33: mapping resolution lists the explicit entries first, unchanged, and
   after them, in staging-column order, one entry mapping to itself for every
   staging column that is not a metadata column, not a reserved column, not
   the key of an explicit entry and not the source of an explicit entry; no
   other column is auto-mapped *)
C33_DiscoveredMappingsAppended ==
    Resolved =>
        LET explicit == batchOut.column_mappings
            out == batchOut.out
            metadata_set == Elements(ResolveMetadataColumns(batchOut.metadata_columns))
            reserved == ResolveReservedSourceColumns(batchOut.reserved_source_columns)
            Eligible(column) ==
                /\ column \notin metadata_set
                /\ column \notin reserved
                /\ \A i \in 1..Len(explicit) :
                       explicit[i].column # column /\ explicit[i].source # column
            expected == IF batchOut.rows = <<>> THEN <<>>
                        ELSE SelectSeq(StagingColumnOrder, Eligible)
        IN  /\ Len(out) = Len(explicit) + Len(expected)
            /\ SubSeq(out, 1, Len(explicit)) = explicit
            /\ \A i \in 1..Len(expected) :
                   out[Len(explicit) + i] =
                       [column |-> expected[i], source |-> expected[i]]

(* an explicit entry renames column t: the entry comes first, t is not mapped
   again, and the other business columns follow in staging order *)
C33_Witness ==
    /\ Resolved
    /\ batchOut.rows # <<>>
    /\ batchOut.column_mappings =
           <<[column |-> "note", source |-> "t"], [column |-> "file_hash", source |-> "t"]>>
    /\ batchOut.metadata_columns = NotGiven
    /\ batchOut.reserved_source_columns = NotGiven
    /\ batchOut.out =
           <<[column |-> "note", source |-> "t"], [column |-> "file_hash", source |-> "t"],
             [column |-> "date", source |-> "date"], [column |-> "hours", source |-> "hours"]>>

(* the run of worker l found its content hash in the staging table: at the
   gate of prep_excel.main, or at the loader's re-check inside its
   transaction *)
FoundDuplicate(l) == l.gateHit \/ (l.exc = "pipeline" /\ l.site = "recheck")

(* C34: detecting duplicate content is a skip and never an error: whenever a
   job's run found its content hash already in the staging table, at the
   gate or at the loader's re-check, process_job ends the job Loaded, not
   Error *)
C34Step ==
    \A w \in Workers :
        (/\ wk[w].pc = "mark"
         /\ Moves(w)
         /\ wk'[w].pc # "crashed"
         /\ FoundDuplicate(wk[w]))
        => /\ jobStatus'[wk[w].job] = "Loaded"
           /\ Last(jobEvents'[wk[w].job]).status = "Loaded"

C34_DuplicateEndsLoaded == [][C34Step]_vars

(* the same for a duplicate found at the gate only *)
C34GateStep ==
    \A w \in Workers :
        (/\ wk[w].pc = "mark"
         /\ Moves(w)
         /\ wk'[w].pc # "crashed"
         /\ wk[w].gateHit)
        => /\ jobStatus'[wk[w].job] = "Loaded"
           /\ Last(jobEvents'[wk[w].job]).status = "Loaded"

C34_GateDuplicateEndsLoaded == [][C34GateStep]_vars

(* a job whose loader found the hash at the re-check ends Error *)
C34_RecheckEndsError ==
    \E w \in Workers :
        /\ wk[w].pc = "raised"
        /\ wk[w].job # NoJob
        /\ wk[w].site = "recheck"
        /\ jobStatus[wk[w].job] = "Error"

LoaderCalled == batchOut.kind = "load_csv_into_staging"

(* position of a statement in the list the loader sent; 0 when not sent *)
SentAt(statements, statement) ==
    IF \E i \in 1..Len(statements) : statements[i] = statement
    THEN CHOOSE i \in 1..Len(statements) : statements[i] = statement
    ELSE 0

(* C35: the staging loader commits only if, inside one transaction and in
   this order, the bulk-load feature check passed, the deduplication
   re-check found no row for the hash, and the bulk insert affected at least
   one row, the count being asked for by a query when the driver reports
   none; if any of these fails the loader raises the matching error and
   rolls back without committing, and the bulk insert is never sent after a
   failed check *)
C35_LoaderCommitsOnlyAfterChecks ==
    LoaderCalled =>
        LET out == batchOut.out
            sent == out.statements
            at(statement) == SentAt(sent, statement)
            feature == batchOut.local_infile = "enabled"
            fresh == ~batchOut.hash_exists
            affected == IF batchOut.driver_count # -1 THEN batchOut.driver_count
                        ELSE IF batchOut.count_query = <<>> THEN 0
                        ELSE batchOut.count_query[1]
        IN  /\ out.committed <=> (feature /\ fresh /\ batchOut.load_ok /\ affected > 0)
            /\ out.committed <=> at("commit") > 0
            /\ out.committed <=> out.error = "none"
            /\ ~out.committed <=> at("rollback") = Len(sent)
            /\ at("begin") = 1 /\ at("select_local_infile") = 2
            /\ at("commit") > 0 =>
                   /\ at("commit") = Len(sent)
                   /\ at("select_file_hash") = 3
                   /\ at("load_data") = 4
            /\ at("load_data") > 0 <=> (feature /\ fresh)
            /\ at("select_file_hash") > 0 <=> feature
            /\ at("select_row_count") > 0 <=>
                   (feature /\ fresh /\ batchOut.load_ok /\ batchOut.driver_count = -1)
            /\ at("select_row_count") > 0 => at("select_row_count") = 5
            /\ batchOut.local_infile \in {"disabled", "option_prevents"} =>
                   out.error = "local_infile_disabled"
            /\ (feature /\ ~fresh) => out.error = "duplicate"
            /\ (feature /\ fresh /\ batchOut.load_ok /\ affected = 0) =>
                   out.error = "empty_load"

(* the driver reports no count, the count query says two rows: committed
   after the five statements *)
C35_Witness ==
    /\ LoaderCalled
    /\ batchOut.driver_count = -1
    /\ batchOut.count_query = <<2>>
    /\ batchOut.out.committed
    /\ batchOut.out.statements =
           <<"begin", "select_local_infile", "select_file_hash", "load_data",
             "select_row_count", "commit">>

Ensured == batchOut.kind = "ensure_staging_columns"

(* the columns a call requires of the table: the metadata targets and the
   headers that are neither empty nor metadata *)
RequiredOf(config, headers) ==
    (IF config.metadata_columns # {} THEN config.metadata_columns
     ELSE Elements(DefaultMetadataColumnNames))
    \cup {header \in Elements(headers) : header # "" /\ header \notin config.metadata_columns}

(* the table has every required column, each overridden header with a type
   equal to the override after normalising whitespace, case and default
   nullability *)
UpToDate(table, config, headers) ==
    /\ table.exists
    /\ RequiredOf(config, headers) \subseteq NamesOf(table)
    /\ \A header \in Elements(headers) :
          (/\ header # "" /\ header \notin config.metadata_columns
           /\ OverrideOf(config.column_types, header) # <<>>) =>
              LET existing == ColumnNamed(table, header)
              IN  NormaliseSqlType(existing.type,
                                   IF existing.is_nullable THEN NullWords ELSE NotNullWords)
                      = NormaliseSqlType(OverrideOf(config.column_types, header), NullWords)

(* the table a call of the sequence started from *)
TableBefore(i) == IF i = 1 THEN batchOut.before ELSE batchOut.calls[i - 1].table

(* the schema manager returns true exactly when it executed a statement,
   and executes none on a table that is up to date *)
C36_ReturnsWhetherDdlExecuted ==
    Ensured =>
        \A i \in 1..Len(batchOut.calls) :
            /\ batchOut.calls[i].schema_changed <=> batchOut.calls[i].statements # <<>>
            /\ UpToDate(TableBefore(i), batchOut.config, batchOut.headers) =>
                   batchOut.calls[i].statements = <<>>
            /\ batchOut.calls[i].statements = <<>> =>
                   batchOut.calls[i].table = TableBefore(i)

(* an override with a DEFAULT clause *)
HasDefaultClause(config) ==
    \E name \in DOMAIN config.column_types :
        \E i \in 1..Len(config.column_types[name]) :
            UpperWord(config.column_types[name][i]) = "DEFAULT"

(* without a DEFAULT clause in an override, every call after the first
   executes nothing and returns false *)
C36_RepeatedCallIsQuietWithoutDefault ==
    (Ensured /\ ~HasDefaultClause(batchOut.config)) =>
        \A i \in 2..Len(batchOut.calls) :
            /\ batchOut.calls[i].statements = <<>>
            /\ ~batchOut.calls[i].schema_changed

(* C36: the staging schema manager returns true exactly when it executed at
   least one DDL statement, it executes none when the table already has
   every required column with a type equal to the configured type after
   normalising whitespace, case and default nullability, and a second call
   with the same inputs right after a first one executes no DDL and returns
   false *)
C36_SecondCallExecutesNoDdl ==
    Ensured =>
        /\ \A i \in 1..Len(batchOut.calls) :
              /\ batchOut.calls[i].schema_changed <=> batchOut.calls[i].statements # <<>>
              /\ UpToDate(TableBefore(i), batchOut.config, batchOut.headers) =>
                     batchOut.calls[i].statements = <<>>
        /\ Len(batchOut.calls) >= 2 =>
              /\ batchOut.calls[2].statements = <<>>
              /\ ~batchOut.calls[2].schema_changed

(* a second call that did nothing after a first one that added a column *)
C36_WitnessQuiet ==
    /\ Ensured
    /\ Len(batchOut.calls) >= 2
    /\ batchOut.calls[1].schema_changed
    /\ ~batchOut.calls[2].schema_changed

(* a run for hash h is between the gate and the end of run_pipeline *)
InFlight(l, h) ==
    /\ l.hash = h
    /\ l.pc \in {"load_begin", "load", "load_commit", "prepare", "validate",
                 "norm", "norm_commit"}

(* the committed, unprocessed staging rows of hash h that no run in flight
   can still normalize *)
StrandedRows(rows, workers, h) ==
    IF \E w \in Workers : InFlight(workers[w], h) THEN {}
    ELSE {r \in rows : r.hash = h /\ ~r.processed}

(* worker w leaves run_pipeline in this step because the normalization
   transaction failed and was rolled back *)
NormalizationFails(w) ==
    /\ wk[w].pc = "norm"
    /\ wk'[w].exc = "pipeline"
    /\ wk'[w].site \in {"insert", "mark"}

C37Step ==
    /\ \A w \in Workers :
          (/\ NormalizationFails(w)
           /\ \A v \in Workers \ {w} : ~InFlight(wk[v], wk[w].hash)) =>
              (wk[w].fetched \cap {r \in staging : ~r.processed})
                  \subseteq StrandedRows(staging', wk', wk[w].hash)
    /\ \A h \in Contents :
          LET stranded == StrandedRows(staging, wk, h)
          IN  stranded # {} =>
                  /\ stranded \subseteq StrandedRows(staging', wk', h)
                  /\ \A r \in stranded :
                        ~\E n \in normalized' : n.hash = h /\ n.raw = r.batch
                  /\ \A w \in Workers :
                        (/\ wk[w].pc = "prep" /\ wk[w].content = h
                         /\ Moves(w) /\ wk'[w].pc # "crashed") =>
                            /\ wk'[w].gateHit
                            /\ wk'[w].result.skipped
                            /\ wk'[w].result.normalized_rows = 0
                            /\ wk'[w].pc = AfterRun(wk[w], "none")
                  /\ \A w \in Workers :
                        (/\ wk[w].pc = "mark" /\ wk[w].gateHit /\ wk[w].hash = h
                         /\ Moves(w) /\ wk'[w].pc # "crashed") =>
                            /\ jobStatus'[wk[w].job] = "Loaded"
                            /\ Last(jobEvents'[wk[w].job]).message =
                                   "Duplicate upload detected"

(* C37: if a run's staging load commits but its normalization then fails
   and rolls back, every later run for the same content is stopped by the
   deduplication gate as a duplicate: the staged rows of the hash are never
   normalized and never marked processed by a retry, and each retried job
   ends Loaded *)
C37_FailedNormalizationIsNeverRetried == [][C37Step]_vars

(* job 1 failed in normalization after its load, job 2 for the same content
   was skipped at the gate and is Loaded, the staged rows are as the failed
   run left them *)
C37_Witness ==
    /\ jobContent[1] = "a" /\ jobContent[2] = "a"
    /\ jobStatus[1] = "Error" /\ Last(jobEvents[1]).message = "pipeline failed"
    /\ jobStatus[2] = "Loaded"
    /\ Last(jobEvents[2]).message = "Duplicate upload detected"
    /\ \E r \in staging : r.hash = "a" /\ ~r.processed
    /\ normalized = {}

(* the normalized rows of hash h that the table holds *)
RECURSIVE PersistedRows(_, _)
PersistedRows(table, h) ==
    LET of == {n \in table : n.hash = h}
    IN  IF of = {} THEN 0
        ELSE LET x == CHOOSE n \in of : TRUE
             IN  x.n + PersistedRows(table \ {x}, h)

(* the run of worker w ended because its normalization was rolled back *)
RolledBack(l) == l.exc = "pipeline" /\ l.site \in {"insert", "mark"}

(* C38: whenever run_pipeline raises after rolling back the normalization
   transaction, the normalized_rows and inserted_count of the partial
   result equal the number of normalized rows of that run that persisted
   (zero after a rollback), so the metrics recorded for the failed job never
   count rows that were rolled back *)
C38_PartialResultCountsPersistedRows ==
    [][\A w \in Workers :
          /\ NormalizationFails(w) =>
                /\ wk'[w].result.normalized_rows = PersistedRows(normalized', wk[w].hash)
                /\ wk'[w].result.inserted_count = PersistedRows(normalized', wk[w].hash)
          /\ (wk[w].pc = "record" /\ RolledBack(wk[w]) /\ wk'[w].pc = "mark") =>
                jobResult'[wk[w].job].processed_rows =
                    PersistedRows(normalized', wk[w].hash)]_vars

(* the same for a normalization that failed at the insert: nothing was
   inserted, nothing is counted *)
C38_FailedInsertCountsNothing ==
    [][\A w \in Workers :
          /\ (NormalizationFails(w) /\ wk'[w].site = "insert") =>
                /\ wk'[w].result.normalized_rows = PersistedRows(normalized', wk[w].hash)
                /\ wk'[w].result.inserted_count = 0
          /\ (/\ wk[w].pc = "record" /\ RolledBack(wk[w]) /\ wk[w].site = "insert"
              /\ wk'[w].pc = "mark") =>
                jobResult'[wk[w].job].processed_rows = 0]_vars

(* worker w is inside the run_pipeline call of a job *)
RunsJob(l) == l.job # NoJob /\ l.pc \notin Resting

C39Step ==
    \A w \in Workers :
        /\ (RunsJob(wk'[w]) /\ wk'[w].pc \notin {"record", "mark"}) =>
              /\ wk'[w].policy = "append"
              /\ wk'[w].ranges = <<>>
        /\ (RunsJob(wk[w]) /\ Moves(w)) =>
              /\ wk'[w].overlaps = {}
              /\ wk'[w].txDel = {}
              /\ normalized \subseteq normalized'
              /\ (wk[w].pc = "norm" /\ wk'[w].pc = "norm_commit") =>
                     wk'[w].txIns = NormalizedRowsFor(wk[w].fetched, wk[w].run)
              /\ (wk[w].pc = "norm_commit" /\ wk'[w].pc # "crashed") =>
                     /\ ~wk'[w].result.skipped
                     /\ normalized' = normalized \cup wk[w].txIns
                     /\ wk'[w].result.conflict_resolution = "append"

(* C39: a job executed through process_job always runs the pipeline with
   the append policy and no requested time ranges, so within a job the
   overlap check reports no overlaps and neither the replace delete nor the
   skip branch of run_pipeline is taken *)
C39_JobsRunAppendWithoutRanges == [][C39Step]_vars

(* a job's run has committed rows whose period intersects rows that were
   stored before: no overlap was reported, nothing was deleted *)
C39_Witness ==
    \E w \in Workers :
        /\ wk[w].job # NoJob
        /\ wk[w].pc = "record"
        /\ wk[w].exc = "none"
        /\ ~wk[w].gateHit
        /\ wk[w].overlaps = {}
        /\ \E mine \in normalized, stored \in normalized :
              /\ mine.hash = wk[w].hash
              /\ stored.hash # wk[w].hash
              /\ Intersects(stored, <<mine.lo, mine.hi>>)

====
